---- MODULE Spec2Model ----
(***************************************************************************)
(* Model of the deployment engine's orchestration core.                    *)
(*                                                                         *)
(* Part 1: execute_long_deployment (src/src/deployment_report/mod.rs).     *)
(* The calling ("main") thread runs the task's pre_run / run /             *)
(* post_run_success, the scoped "deployment-monitor" thread calls the      *)
(* reporter's deployment_before_start / deployment_in_progress.  Every     *)
(* call of a reporter or task method is two steps, its entry and its       *)
(* return, so that "has returned before ... is entered" is a statement      *)
(* about states.                                                           *)
(***************************************************************************)
EXTENDS Integers, Sequences, FiniteSets, TLC

\* ------------------------------------------------------------------ bounds
\* number of distinct values a task's DeploymentResult can take
NumVals == 2
\* number of distinct error tags a task can fail with
NumTags == 2
\* number of recv_timeout timeouts (deployment_in_progress calls) explored
MaxReports == 4

\* number of steps a caller enqueues in one Transaction at most
MaxSteps == 3

\* number of ticks of the clock in one second
TicksPerSecond == 2

\* Barrier::new(2): the number of parties of deployment_start
BarrierParties == 2

Vals == 1..NumVals
Tags == 1..NumTags

\* ------------------------------------------------------------------ values
\* Result<TaskRet, EngineError>; an EngineError is identified by its tag
Ok(v) == [kind |-> "Ok", val |-> v]
Err(t) == [kind |-> "Err", val |-> t]
\* a bare TaskRet passed as an argument
Val(v) == [kind |-> "Val", val |-> v]
\* no argument / not yet assigned
None == [kind |-> "None", val |-> 0]
\* Ok(()) of execute_long_deployment
OkUnit == [kind |-> "Ok", val |-> 0]

TaskResults == {Ok(v) : v \in Vals} \cup {Err(t) : t \in Tags}

VARIABLES
    pcMain,             \* position of the calling thread in execute_long_deployment
    pcMon,              \* position of the deployment-monitor thread
    tx,                 \* TRUE while the Sender half of the channel is alive
    rx,                 \* TRUE while the Receiver half of the channel is alive
    chan,               \* number of () messages queued in the channel
    deployment_start,   \* the Barrier: [count, generation]
    th_handle,          \* result of spawn_scoped: "None" (not yet), "Ok", "Err"
    spawned,            \* number of monitor threads ever started
    action_state,       \* value returned by pre_run
    deployment_result,  \* result of run
    retval,             \* what execute_long_deployment returned
    reporter,           \* TRUE while the reporter (moved into the call) is not dropped
    log,                \* calls and returns of reporter / task methods, in order
    \* Part 2: Transaction (src/src/transaction.rs)
    txPc,               \* position of the caller / of commit in the Transaction's life
    engine,             \* the InfrastructureContext: what each collaborator reports
    steps,              \* Transaction.steps: the queue of pending steps
    executed_steps,     \* Transaction.executed_steps
    stepIdx,            \* commit: index of the step the `for` loop is at
    rbIdx,              \* rollback: index of the executed step the `for` loop is at
    err,                \* commit_infrastructure: the error that started the rollback
    rollbackRet,        \* what rollback returned
    api,                \* calls of the Transaction's public methods, with what they returned
    klog,               \* calls of the collaborators' methods, with what they returned
    \* Part 3: CommandError and EngineError (src/src/errors/mod.rs)
    command_err,        \* the CommandError that was built, as an Option
    engine_err,         \* the EngineError that was built, as an Option
    new_args,           \* the arguments EngineError::new was called with, as an Option
    cloned,             \* what clone_engine_error_with_stage returned, as an Option
    clone_stage,        \* the stage clone_engine_error_with_stage was called with, as an Option
    out,                \* the last rendering of an error: what was rendered, how, the text
    \* Part 4: DeploymentAction (src/src/deployment_action)
    da_pc,              \* position of the caller of exec_action
    da_target,          \* the DeploymentTarget exec_action was called with
    da_action,          \* the Action exec_action was called with
    hook_calls,         \* the hooks exec_action invoked, with their target and result
    cleanup,            \* what delete_cached_image returned inside post_run_success
    da_ret,             \* what exec_action returned
    \* Part 5: InfrastructureTask (src/src/engine_task/infrastructure_task.rs)
    task_pc,            \* position of InfrastructureTask::run
    request_action,     \* self.request.action
    events,             \* the engine events given to logger.log, in order
    \* Part 6: execute_long_deployment in real time
    ticks,              \* one entry per elapsed tick: the length of log when it elapsed
    \* Part 10: LocalDocker::build (src/src/build_platform/local_docker.rs)
    build_pc,           \* position of LocalDocker::build
    build_req,          \* the Build it was called with: whether it names a Dockerfile
    build_calls,        \* what build polled, called and started, with what came back
    build_ret           \* what build returned, as an Option

eldVars == <<pcMain, pcMon, tx, rx, chan, deployment_start, th_handle, spawned,
             action_state, deployment_result, retval, reporter, log>>

txVars == <<txPc, engine, steps, executed_steps, stepIdx, rbIdx, err, rollbackRet,
            api, klog>>

errVars == <<command_err, engine_err, new_args, cloned, clone_stage, out>>

daVars == <<da_pc, da_target, da_action, hook_calls, cleanup, da_ret>>

taskVars == <<task_pc, request_action, events>>

buildVars == <<build_pc, build_req, build_calls, build_ret>>

\* the variables of the parts 3 to 10
extVars == <<errVars, daVars, taskVars, ticks, buildVars>>

vars == <<eldVars, txVars, extVars>>

\* ------------------------------------------------------------------ helpers
Call(op, arg) == [op |-> op, ev |-> "call", arg |-> arg]
Ret(op, arg) == [op |-> op, ev |-> "ret", arg |-> arg]

\* indices of the log at which event ev of method op is recorded
Idx(op, ev) == {i \in 1..Len(log) : log[i].op = op /\ log[i].ev = ev}
NumCalls(op) == Cardinality(Idx(op, "call"))

\* std::sync::Barrier::wait: the last party to arrive resets the count, bumps
\* the generation and goes on; the others block until the generation changes
BarrierArrive(b) ==
    IF b.count + 1 < BarrierParties
    THEN [count |-> b.count + 1, generation |-> b.generation]
    ELSE [count |-> 0, generation |-> b.generation + 1]

BarrierIsLeader(b) == b.count + 1 >= BarrierParties

\* ------------------------------------------------------------------ initial state
\* lines 122-126: channel, barrier and reporter state are created, nothing has run
EldInit ==
    /\ pcMain = "pre_run"
    /\ pcMon = "unspawned"
    /\ tx = TRUE
    /\ rx = TRUE
    /\ chan = 0
    /\ deployment_start = [count |-> 0, generation |-> 0]
    /\ th_handle = "None"
    /\ spawned = 0
    /\ action_state = None
    /\ deployment_result = None
    /\ retval = None
    /\ reporter = TRUE
    /\ log = <<>>

\* no Transaction has been built yet: Transaction::new has not been called
TxInit ==
    /\ txPc = "new"
    /\ engine = None
    /\ steps = <<>>
    /\ executed_steps = <<>>
    /\ stepIdx = 0
    /\ rbIdx = 0
    /\ err = None
    /\ rollbackRet = None
    /\ api = <<>>
    /\ klog = <<>>

\* no error has been built or rendered yet
ErrInit ==
    /\ command_err = <<>>
    /\ engine_err = <<>>
    /\ new_args = <<>>
    /\ cloned = <<>>
    /\ clone_stage = <<>>
    /\ out = <<>>

\* exec_action has not been called yet
DaInit ==
    /\ da_pc = "idle"
    /\ da_target = <<>>
    /\ da_action = <<>>
    /\ hook_calls = <<>>
    /\ cleanup = <<>>
    /\ da_ret = <<>>

\* no InfrastructureTask has been built yet
TaskInit ==
    /\ task_pc = "idle"
    /\ request_action = <<>>
    /\ events = <<>>

\* LocalDocker::build has not been called yet
BuildInit ==
    /\ build_pc = "idle"
    /\ build_req = <<>>
    /\ build_calls = <<>>
    /\ build_ret = <<>>

Init == EldInit /\ TxInit /\ ErrInit /\ DaInit /\ TaskInit /\ ticks = <<>> /\ BuildInit

\* ------------------------------------------------------------------ main thread
\* mutant of PreRunCall: the monitor thread is started before pre_run
PreRunCallSpawnsFirst ==
    /\ pcMain = "pre_run"
    /\ pcMain' = "in_pre_run"
    /\ pcMon' = "before_start"
    /\ log' = Append(log, Call("pre_run", None))
    /\ UNCHANGED <<tx, rx, chan, deployment_start, th_handle, spawned,
                   action_state, deployment_result, retval, reporter>>
    /\ UNCHANGED <<txVars, extVars>>

\* line 127: long_task.pre_run(logger) is entered
PreRunCall ==
    /\ pcMain = "pre_run"
    /\ pcMain' = "in_pre_run"
    /\ log' = Append(log, Call("pre_run", None))
    /\ UNCHANGED <<pcMon, tx, rx, chan, deployment_start, th_handle, spawned,
                   action_state, deployment_result, retval, reporter>>
    /\ UNCHANGED <<txVars, extVars>>

\* mutant of PreRunReturn: the error of pre_run is not propagated, the
\* deployment goes on with a default value
PreRunReturnSwallowsErr ==
    /\ pcMain = "in_pre_run"
    /\ \E r \in TaskResults :
        /\ log' = Append(log, Ret("pre_run", r))
        /\ action_state' = IF r.kind = "Ok" THEN Val(r.val) ELSE Val(1)
    /\ pcMain' = "spawn"
    /\ UNCHANGED <<pcMon, tx, rx, chan, deployment_start, th_handle, spawned,
                   deployment_result, retval, reporter>>
    /\ UNCHANGED <<txVars, extVars>>

\* line 127: pre_run returns; `?` returns its error from execute_long_deployment,
\* dropping tx, the state and the reporter
PreRunReturn ==
    /\ pcMain = "in_pre_run"
    /\ \E r \in TaskResults :
        /\ log' = Append(log, Ret("pre_run", r))
        /\ IF r.kind = "Ok"
           THEN /\ action_state' = Val(r.val)
                /\ pcMain' = "spawn"
                /\ UNCHANGED <<retval, tx, reporter>>
           ELSE /\ retval' = r
                /\ pcMain' = "returned"
                /\ tx' = FALSE
                /\ reporter' = FALSE
                /\ UNCHANGED action_state
    /\ UNCHANGED <<pcMon, rx, chan, deployment_start, th_handle, spawned,
                   deployment_result>>
    /\ UNCHANGED <<txVars, extVars>>

\* lines 129-168: thread::Builder::spawn_scoped starts the monitor, or fails with
\* an io::Error, in which case the closure (and the Receiver it owns) is dropped
Spawn ==
    /\ pcMain = "spawn"
    /\ pcMain' = "barrier"
    /\ \/ /\ th_handle' = "Ok"
          /\ pcMon' = "before_start"
          /\ spawned' = spawned + 1
          /\ UNCHANGED rx
       \/ /\ th_handle' = "Err"
          /\ rx' = FALSE
          /\ UNCHANGED <<pcMon, spawned>>
    /\ UNCHANGED <<tx, chan, deployment_start, action_state, deployment_result,
                   retval, reporter, log>>
    /\ UNCHANGED <<txVars, extVars>>

\* mutant of MainBarrierWait: the main thread does not block on the barrier
MainBarrierWaitNoBlock ==
    /\ pcMain = "barrier"
    /\ pcMain' = "run"
    /\ deployment_start' = BarrierArrive(deployment_start)
    /\ UNCHANGED <<pcMon, tx, rx, chan, th_handle, spawned, action_state,
                   deployment_result, retval, reporter, log>>
    /\ UNCHANGED <<txVars, extVars>>

\* line 171: deployment_start.wait() on the main thread
MainBarrierWait ==
    /\ pcMain = "barrier"
    /\ pcMain' = IF BarrierIsLeader(deployment_start) THEN "run" ELSE "barrier_wait"
    /\ deployment_start' = BarrierArrive(deployment_start)
    /\ UNCHANGED <<pcMon, tx, rx, chan, th_handle, spawned, action_state,
                   deployment_result, retval, reporter, log>>
    /\ UNCHANGED <<txVars, extVars>>

\* line 171: the main thread is released once the generation has changed
MainBarrierRelease ==
    /\ pcMain = "barrier_wait"
    /\ deployment_start.generation > 0
    /\ pcMain' = "run"
    /\ UNCHANGED <<pcMon, tx, rx, chan, deployment_start, th_handle, spawned,
                   action_state, deployment_result, retval, reporter, log>>
    /\ UNCHANGED <<txVars, extVars>>

\* line 172: long_task.run(logger, action_state) is entered
RunCall ==
    /\ pcMain = "run"
    /\ pcMain' = "in_run"
    /\ log' = Append(log, Call("run", action_state))
    /\ UNCHANGED <<pcMon, tx, rx, chan, deployment_start, th_handle, spawned,
                   action_state, deployment_result, retval, reporter>>
    /\ UNCHANGED <<txVars, extVars>>

\* mutant of RunReturn: a failed run is retried once
RunReturnRetries ==
    /\ pcMain = "in_run"
    /\ \E r \in TaskResults :
        /\ deployment_result' = r
        /\ log' = Append(log, Ret("run", r))
        /\ pcMain' = IF r.kind = "Err" /\ NumCalls("run") < 2 THEN "run" ELSE "send"
    /\ UNCHANGED <<pcMon, tx, rx, chan, deployment_start, th_handle, spawned,
                   action_state, retval, reporter>>
    /\ UNCHANGED <<txVars, extVars>>

\* line 172: run returns and its result is captured
RunReturn ==
    /\ pcMain = "in_run"
    /\ \E r \in TaskResults :
        /\ deployment_result' = r
        /\ log' = Append(log, Ret("run", r))
    /\ pcMain' = "send"
    /\ UNCHANGED <<pcMon, tx, rx, chan, deployment_start, th_handle, spawned,
                   action_state, retval, reporter>>
    /\ UNCHANGED <<txVars, extVars>>

\* mutant of Send: a send that fails is made the error of execute_long_deployment
SendFailureEscalates ==
    /\ pcMain = "send"
    /\ IF rx
       THEN /\ chan' = chan + 1
            /\ pcMain' = "join"
            /\ UNCHANGED <<retval, tx, reporter>>
       ELSE /\ pcMain' = "returned"
            /\ retval' = Err(1)
            /\ tx' = FALSE
            /\ reporter' = FALSE
            /\ UNCHANGED chan
    /\ UNCHANGED <<pcMon, rx, deployment_start, th_handle, spawned,
                   action_state, deployment_result, log>>
    /\ UNCHANGED <<txVars, extVars>>

\* mutant of Send: the Sender is dropped instead of used
SendDropsSender ==
    /\ pcMain = "send"
    /\ pcMain' = "join"
    /\ tx' = FALSE
    /\ UNCHANGED <<pcMon, rx, chan, deployment_start, th_handle, spawned,
                   action_state, deployment_result, retval, reporter, log>>
    /\ UNCHANGED <<txVars, extVars>>

\* mutant of Send: nothing is sent
SendNothing ==
    /\ pcMain = "send"
    /\ pcMain' = "join"
    /\ UNCHANGED <<pcMon, tx, rx, chan, deployment_start, th_handle, spawned,
                   action_state, deployment_result, retval, reporter, log>>
    /\ UNCHANGED <<txVars, extVars>>

\* line 173: let _ = tx.send(()): queues one message unless the Receiver is gone
Send ==
    /\ pcMain = "send"
    /\ pcMain' = "join"
    /\ chan' = IF rx THEN chan + 1 ELSE chan
    /\ UNCHANGED <<pcMon, tx, rx, deployment_start, th_handle, spawned,
                   action_state, deployment_result, retval, reporter, log>>
    /\ UNCHANGED <<txVars, extVars>>

\* mutant of Join: the monitor is detached, nothing waits for it to finish
JoinNoWait ==
    /\ pcMain = "join"
    /\ pcMain' = "terminated"
    /\ UNCHANGED <<pcMon, tx, rx, chan, deployment_start, th_handle, spawned,
                   action_state, deployment_result, retval, reporter, log>>
    /\ UNCHANGED <<txVars, extVars>>

\* lines 174-177: th_handle.map(|th| th.join()) and the end of thread::scope:
\* blocks until the monitor thread has finished (a panic of it is ignored)
Join ==
    /\ pcMain = "join"
    /\ th_handle = "Ok" => pcMon \in {"exited", "panicked"}
    /\ pcMain' = "terminated"
    /\ UNCHANGED <<pcMon, tx, rx, chan, deployment_start, th_handle, spawned,
                   action_state, deployment_result, retval, reporter, log>>
    /\ UNCHANGED <<txVars, extVars>>

\* line 179: deployment_reporter.deployment_terminated(&deployment_result, &mut state)
TerminatedCall ==
    /\ pcMain = "terminated"
    /\ pcMain' = "in_terminated"
    /\ log' = Append(log, Call("deployment_terminated", deployment_result))
    /\ UNCHANGED <<pcMon, tx, rx, chan, deployment_start, th_handle, spawned,
                   action_state, deployment_result, retval, reporter>>
    /\ UNCHANGED <<txVars, extVars>>

\* mutant of TerminatedReturn: post_run_success is reached whatever run returned
TerminatedReturnAlwaysPost ==
    /\ pcMain = "in_terminated"
    /\ log' = Append(log, Ret("deployment_terminated", None))
    /\ pcMain' = "post_run"
    /\ UNCHANGED <<pcMon, tx, rx, chan, deployment_start, th_handle, spawned,
                   action_state, deployment_result, retval, reporter>>
    /\ UNCHANGED <<txVars, extVars>>

\* mutant of TerminatedReturn: the error of run is replaced by a fixed error
TerminatedReturnRetags ==
    /\ pcMain = "in_terminated"
    /\ log' = Append(log, Ret("deployment_terminated", None))
    /\ IF deployment_result.kind = "Ok"
       THEN /\ pcMain' = "post_run"
            /\ UNCHANGED <<retval, tx, reporter>>
       ELSE /\ pcMain' = "returned"
            /\ retval' = Err(1)
            /\ tx' = FALSE
            /\ reporter' = FALSE
    /\ UNCHANGED <<pcMon, rx, chan, deployment_start, th_handle, spawned,
                   action_state, deployment_result>>
    /\ UNCHANGED <<txVars, extVars>>

\* lines 179-186: deployment_terminated returns; on Err(err) the function returns
\* Err(err), on Ok(ret) it goes on to post_run_success
TerminatedReturn ==
    /\ pcMain = "in_terminated"
    /\ log' = Append(log, Ret("deployment_terminated", None))
    /\ IF deployment_result.kind = "Ok"
       THEN /\ pcMain' = "post_run"
            /\ UNCHANGED <<retval, tx, reporter>>
       ELSE /\ pcMain' = "returned"
            /\ retval' = deployment_result
            /\ tx' = FALSE
            /\ reporter' = FALSE
    /\ UNCHANGED <<pcMon, rx, chan, deployment_start, th_handle, spawned,
                   action_state, deployment_result>>
    /\ UNCHANGED <<txVars, extVars>>

\* mutant of PostRunCall: post_run_success is given pre_run's value, not run's
PostRunCallStaleValue ==
    /\ pcMain = "post_run"
    /\ pcMain' = "in_post_run"
    /\ log' = Append(log, Call("post_run_success", action_state))
    /\ UNCHANGED <<pcMon, tx, rx, chan, deployment_start, th_handle, spawned,
                   action_state, deployment_result, retval, reporter>>
    /\ UNCHANGED <<txVars, extVars>>

\* line 182: long_task.post_run_success(logger, ret) is entered
PostRunCall ==
    /\ pcMain = "post_run"
    /\ pcMain' = "in_post_run"
    /\ log' = Append(log, Call("post_run_success", Val(deployment_result.val)))
    /\ UNCHANGED <<pcMon, tx, rx, chan, deployment_start, th_handle, spawned,
                   action_state, deployment_result, retval, reporter>>
    /\ UNCHANGED <<txVars, extVars>>

\* lines 182-183: post_run_success returns and the function returns Ok(())
PostRunReturn ==
    /\ pcMain = "in_post_run"
    /\ pcMain' = "returned"
    /\ log' = Append(log, Ret("post_run_success", None))
    /\ retval' = OkUnit
    /\ tx' = FALSE
    /\ reporter' = FALSE
    /\ UNCHANGED <<pcMon, rx, chan, deployment_start, th_handle, spawned,
                   action_state, deployment_result>>
    /\ UNCHANGED <<txVars, extVars>>

\* ------------------------------------------------------------------ monitor thread
\* line 144: deployment_reporter.deployment_before_start(state) is entered
BeforeStartCall ==
    /\ pcMon = "before_start"
    /\ pcMon' = "in_before_start"
    /\ log' = Append(log, Call("deployment_before_start", None))
    /\ UNCHANGED <<pcMain, tx, rx, chan, deployment_start, th_handle, spawned,
                   action_state, deployment_result, retval, reporter>>
    /\ UNCHANGED <<txVars, extVars>>

\* line 144: deployment_before_start returns
BeforeStartReturn ==
    /\ pcMon = "in_before_start"
    /\ pcMon' = "barrier"
    /\ log' = Append(log, Ret("deployment_before_start", None))
    /\ UNCHANGED <<pcMain, tx, rx, chan, deployment_start, th_handle, spawned,
                   action_state, deployment_result, retval, reporter>>
    /\ UNCHANGED <<txVars, extVars>>

\* mutant of MonBarrierWait: the monitor does not block on the barrier
MonBarrierWaitNoBlock ==
    /\ pcMon = "barrier"
    /\ pcMon' = "recv"
    /\ deployment_start' = BarrierArrive(deployment_start)
    /\ UNCHANGED <<pcMain, tx, rx, chan, th_handle, spawned, action_state,
                   deployment_result, retval, reporter, log>>
    /\ UNCHANGED <<txVars, extVars>>

\* line 147: deployment_start.wait() on the monitor thread
MonBarrierWait ==
    /\ pcMon = "barrier"
    /\ pcMon' = IF BarrierIsLeader(deployment_start) THEN "recv" ELSE "barrier_wait"
    /\ deployment_start' = BarrierArrive(deployment_start)
    /\ UNCHANGED <<pcMain, tx, rx, chan, th_handle, spawned, action_state,
                   deployment_result, retval, reporter, log>>
    /\ UNCHANGED <<txVars, extVars>>

\* line 147: the monitor is released once the generation has changed
MonBarrierRelease ==
    /\ pcMon = "barrier_wait"
    /\ deployment_start.generation > 0
    /\ pcMon' = "recv"
    /\ UNCHANGED <<pcMain, tx, rx, chan, deployment_start, th_handle, spawned,
                   action_state, deployment_result, retval, reporter, log>>
    /\ UNCHANGED <<txVars, extVars>>

\* lines 151-165: rx.recv_timeout(report_frequency): a queued message ends the
\* loop and the thread (dropping rx); an empty channel whose Sender is gone
\* panics; otherwise the wait may time out
MonRecv ==
    /\ pcMon = "recv"
    /\ IF chan > 0
       THEN /\ chan' = chan - 1
            /\ pcMon' = "exited"
            /\ rx' = FALSE
       ELSE IF ~tx
       THEN /\ pcMon' = "panicked"
            /\ rx' = FALSE
            /\ UNCHANGED chan
       ELSE /\ NumCalls("deployment_in_progress") < MaxReports
            /\ pcMon' = "in_progress"
            /\ UNCHANGED <<chan, rx>>
    /\ UNCHANGED <<pcMain, tx, deployment_start, th_handle, spawned, action_state,
                   deployment_result, retval, reporter, log>>
    /\ UNCHANGED <<txVars, extVars>>

\* line 157: deployment_reporter.deployment_in_progress(state) is entered
InProgressCall ==
    /\ pcMon = "in_progress"
    /\ pcMon' = "in_in_progress"
    /\ log' = Append(log, Call("deployment_in_progress", None))
    /\ UNCHANGED <<pcMain, tx, rx, chan, deployment_start, th_handle, spawned,
                   action_state, deployment_result, retval, reporter>>
    /\ UNCHANGED <<txVars, extVars>>

\* line 157: deployment_in_progress returns and the loop goes round
InProgressReturn ==
    /\ pcMon = "in_in_progress"
    /\ pcMon' = "recv"
    /\ log' = Append(log, Ret("deployment_in_progress", None))
    /\ UNCHANGED <<pcMain, tx, rx, chan, deployment_start, th_handle, spawned,
                   action_state, deployment_result, retval, reporter>>
    /\ UNCHANGED <<txVars, extVars>>

\* ------------------------------------------------------------------ specification
Next ==
    \/ PreRunCall
    \/ PreRunReturn
    \/ Spawn
    \/ MainBarrierWait
    \/ MainBarrierRelease
    \/ RunCall
    \/ RunReturn
    \/ Send
    \/ Join
    \/ TerminatedCall
    \/ TerminatedReturn
    \/ PostRunCall
    \/ PostRunReturn
    \/ BeforeStartCall
    \/ BeforeStartReturn
    \/ MonBarrierWait
    \/ MonBarrierRelease
    \/ MonRecv
    \/ InProgressCall
    \/ InProgressReturn

Spec == Init /\ [][Next]_vars

\* ------------------------------------------------------------------ properties
\* positions of the two threads, grouped
MainPastJoin == pcMain \in {"terminated", "in_terminated", "post_run", "in_post_run", "returned"}
MonFinished == pcMon \in {"exited", "panicked"}
MonInCallback == pcMon \in {"in_before_start", "in_in_progress"}

\* the calls of the reporter callbacks and of post_run_success, in log order
NarrationOps == {"deployment_before_start", "deployment_in_progress",
                 "deployment_terminated", "post_run_success"}
Narration == SelectSeq(log, LAMBDA e : e.ev = "call" /\ e.op \in NarrationOps)
Rank(op) ==
    CASE op = "deployment_before_start" -> 1
      [] op = "deployment_in_progress" -> 2
      [] op = "deployment_terminated" -> 3
      [] op = "post_run_success" -> 4

\* the result pre_run / run returned, None while it has not returned
Returned(op) ==
    IF Idx(op, "ret") = {} THEN None ELSE log[CHOOSE i \in Idx(op, "ret") : TRUE].arg

\* C1: whenever task.run has been entered, deployment_before_start was called
\* and had returned before that entry.
C1_BeforeStartReturnsBeforeRun ==
    \A i \in Idx("run", "call") :
        \E j \in Idx("deployment_before_start", "ret") : j < i

C1_Witness == pcMain = "in_run" /\ pcMon = "barrier_wait"

C3_TerminatedAfterJoin ==
    /\ MainPastJoin /\ th_handle = "Ok" => MonFinished
    /\ ~(pcMain = "in_terminated" /\ MonInCallback)

C3_Witness ==
    pcMain = "in_terminated" /\ pcMon = "exited" /\ NumCalls("deployment_in_progress") > 0

\* C4: the calls of the reporter and of post_run_success are, in order, one
\* deployment_before_start, any number of deployment_in_progress, at most one
\* deployment_terminated, at most one post_run_success; post_run_success is
\* entered only after deployment_terminated has returned and only if run
\* returned Ok; once the function has returned after a successful pre_run,
\* deployment_before_start and deployment_terminated were each called exactly
\* once, and post_run_success once if run returned Ok and never otherwise.
C4_NarrationSequence ==
    LET n == Narration IN
    /\ \A i \in 1..Len(n) : \A j \in i+1..Len(n) : Rank(n[i].op) <= Rank(n[j].op)
    /\ n # <<>> => n[1].op = "deployment_before_start"
    /\ NumCalls("deployment_before_start") <= 1
    /\ NumCalls("deployment_terminated") <= 1
    /\ NumCalls("post_run_success") <= 1
    /\ \A i \in Idx("post_run_success", "call") :
        /\ \E j \in Idx("deployment_terminated", "ret") : j < i
        /\ Returned("run").kind = "Ok"
    /\ pcMain = "returned" /\ Returned("pre_run").kind = "Ok" =>
        /\ NumCalls("deployment_before_start") = 1
        /\ NumCalls("deployment_terminated") = 1
        /\ NumCalls("post_run_success") = IF Returned("run").kind = "Ok" THEN 1 ELSE 0

C4_Witness ==
    /\ pcMain = "returned"
    /\ Returned("run").kind = "Ok"
    /\ NumCalls("deployment_in_progress") = 2

\* C5: once pre_run has returned Err(e), execute_long_deployment has returned
\* Err(e), no monitor thread was started and the log holds nothing but the call
\* and return of pre_run.
C5_PreRunErrShortCircuits ==
    Returned("pre_run").kind = "Err" =>
        /\ pcMain = "returned"
        /\ retval = Returned("pre_run")
        /\ spawned = 0
        /\ pcMon = "unspawned"
        /\ th_handle = "None"
        /\ Len(log) = 2

C5_Witness == Returned("pre_run") = Err(2) /\ pcMain = "returned"

\* C6: every call of deployment_before_start or deployment_in_progress comes
\* after the return of pre_run, and no monitor thread runs while the main thread
\* is before or inside pre_run.
C6_SilentDuringPreRun ==
    /\ \A i \in Idx("deployment_before_start", "call") \cup Idx("deployment_in_progress", "call") :
        \E j \in Idx("pre_run", "ret") : j < i
    /\ pcMain \in {"pre_run", "in_pre_run"} => pcMon = "unspawned"

C6_Witness == pcMon = "in_before_start" /\ Idx("pre_run", "ret") # {}

\* C7: if run returned Ok(x): every deployment_terminated call is given Ok(x),
\* every post_run_success call is given x, and once the function has returned both
\* were called exactly once and the function returned Ok(()).
C7_RunOkSeedsPostRun ==
    Returned("run").kind = "Ok" =>
        /\ \A i \in Idx("deployment_terminated", "call") : log[i].arg = Returned("run")
        /\ \A i \in Idx("post_run_success", "call") : log[i].arg = Val(Returned("run").val)
        /\ NumCalls("deployment_terminated") <= 1
        /\ NumCalls("post_run_success") <= 1
        /\ pcMain = "returned" =>
            /\ NumCalls("deployment_terminated") = 1
            /\ NumCalls("post_run_success") = 1
            /\ retval = OkUnit

C7_Witness ==
    /\ pcMain = "returned"
    /\ Returned("pre_run") = Ok(1)
    /\ Returned("run") = Ok(2)

\* C8: if run returned Err(e): post_run_success is never called, every
\* deployment_terminated call is given Err(e), and once the function has returned
\* deployment_terminated was called exactly once and the function returned Err(e).
C8_RunErrSkipsPostRun ==
    Returned("run").kind = "Err" =>
        /\ NumCalls("post_run_success") = 0
        /\ pcMain \notin {"post_run", "in_post_run"}
        /\ \A i \in Idx("deployment_terminated", "call") : log[i].arg = Returned("run")
        /\ NumCalls("deployment_terminated") <= 1
        /\ pcMain = "returned" =>
            /\ NumCalls("deployment_terminated") = 1
            /\ retval = Returned("run")

C8_Witness == pcMain = "returned" /\ Returned("run") = Err(2)

\* C9: pre_run is called exactly once (no second call ever, one call as soon as
\* the function has started), run at most once whatever it returns, and run is
\* given the value pre_run returned.
C9_NoRetries ==
    /\ NumCalls("pre_run") = IF pcMain = "pre_run" THEN 0 ELSE 1
    /\ NumCalls("run") <= 1
    /\ Cardinality(Idx("run", "ret")) <= 1
    /\ \A i \in Idx("run", "call") :
        /\ Returned("pre_run").kind = "Ok"
        /\ log[i].arg = Val(Returned("pre_run").val)
    /\ pcMain \in {"in_run", "send", "join"} \cup
                  {"terminated", "in_terminated", "post_run", "in_post_run"} =>
        NumCalls("run") = 1

C9_Witness ==
    /\ pcMain = "returned"
    /\ Returned("pre_run") = Ok(2)
    /\ Returned("run").kind = "Err"
    /\ NumCalls("run") = 1

\* C10: at most one monitor thread is ever started, and once
\* execute_long_deployment has returned (the reporter is dropped) the monitor
\* thread, if any, has finished: it is in no callback and will make none.
C10_MonitorDoesNotOutliveCall ==
    /\ spawned <= 1
    /\ pcMain = "returned" \/ ~reporter =>
        /\ pcMon \in {"unspawned", "exited", "panicked"}
        /\ spawned = 1 => MonFinished

C10_Witness == pcMain = "returned" /\ ~reporter /\ spawned = 1 /\ pcMon = "exited"


\* ================================================================== Transaction
\* Part 2: Transaction (src/src/transaction.rs) over an InfrastructureContext
\* (src/src/engine.rs).  One caller builds a Transaction, enqueues steps and
\* commits; commit and rollback are followed one collaborator call at a time.

\* enum Step
StepKinds == {"CreateKubernetes", "DeleteKubernetes", "PauseKubernetes"}

\* what a collaborator's is_valid / lifecycle method / rollback hook returns:
\* Result<(), EngineError>
UnitResults == {OkUnit} \cup {Err(t) : t \in Tags}

\* an InfrastructureContext, by what each collaborator would report; the
\* BuildPlatform trait has no is_valid, its field says whether it is usable
Contexts == [build_platform : UnitResults, cloud_provider : UnitResults,
             dns_provider : UnitResults, kubernetes : UnitResults]

\* EngineConfigError::<variant>(EngineError)
ConfigErr(variant, t) == [kind |-> variant, val |-> t]

\* TransactionResult
TransactionOk == [kind |-> "TransactionResult::Ok", val |-> 0]
TransactionCanceled == [kind |-> "TransactionResult::Canceled", val |-> 0]
TransactionError(t) == [kind |-> "TransactionResult::Error", val |-> t]

\* RollbackError::CommitError(Box<EngineError>)
CommitError(t) == [kind |-> "RollbackError::CommitError", val |-> t]

\* one entry of api / klog: a method and what it returned
Did(op, ret) == [op |-> op, ret |-> ret]

\* StepName::can_be_canceled, on the step names a Step can have
can_be_canceled(name) ==
    CASE name = "CreateKubernetes" -> FALSE
      [] name = "DeleteKubernetes" -> FALSE
      [] name = "PauseKubernetes" -> FALSE
      [] name \in {"DeployEnvironment", "PauseEnvironment", "DeleteEnvironment",
                   "BuildEnvironment", "Waiting"} -> TRUE

\* mutant of LifecycleOf: the arms of pause and delete are swapped
LifecycleOfSwapped(step) ==
    CASE step = "CreateKubernetes" -> "on_create"
      [] step = "DeleteKubernetes" -> "on_pause"
      [] step = "PauseKubernetes" -> "on_delete"

\* commit, lines 71-102: the Kubernetes method each arm of the match calls
LifecycleOf(step) ==
    CASE step = "CreateKubernetes" -> "on_create"
      [] step = "DeleteKubernetes" -> "on_delete"
      [] step = "PauseKubernetes" -> "on_pause"

\* rollback, lines 41-60: the Kubernetes hook each arm of the match calls
HookOf(step) ==
    CASE step = "CreateKubernetes" -> "on_create_error"
      [] step = "DeleteKubernetes" -> "on_delete_error"
      [] step = "PauseKubernetes" -> "on_pause_error"

\* mutant of is_valid: the DNS provider is asked first
is_valid_dns_first(ctx, dnsTag) ==
    IF ctx.dns_provider.kind = "Err"
    THEN [ret |-> ConfigErr("DnsProviderNotValid", dnsTag),
          calls |-> <<Did("dns_provider.is_valid", ctx.dns_provider)>>]
    ELSE IF ctx.cloud_provider.kind = "Err"
    THEN [ret |-> ConfigErr("CloudProviderNotValid", ctx.cloud_provider.val),
          calls |-> <<Did("dns_provider.is_valid", ctx.dns_provider),
                      Did("cloud_provider.is_valid", ctx.cloud_provider)>>]
    ELSE [ret |-> OkUnit,
          calls |-> <<Did("dns_provider.is_valid", ctx.dns_provider),
                      Did("cloud_provider.is_valid", ctx.cloud_provider)>>]

\* InfrastructureContext::is_valid (engine.rs 88-100): what it returns and the
\* collaborator calls it makes; dnsTag is the tag of the EngineError that
\* to_engine_error makes of the DNS provider's error
is_valid(ctx, dnsTag) ==
    IF ctx.cloud_provider.kind = "Err"
    THEN [ret |-> ConfigErr("CloudProviderNotValid", ctx.cloud_provider.val),
          calls |-> <<Did("cloud_provider.is_valid", ctx.cloud_provider)>>]
    ELSE IF ctx.dns_provider.kind = "Err"
    THEN [ret |-> ConfigErr("DnsProviderNotValid", dnsTag),
          calls |-> <<Did("cloud_provider.is_valid", ctx.cloud_provider),
                      Did("dns_provider.is_valid", ctx.dns_provider)>>]
    ELSE [ret |-> OkUnit,
          calls |-> <<Did("cloud_provider.is_valid", ctx.cloud_provider),
                      Did("dns_provider.is_valid", ctx.dns_provider)>>]

\* mutant of TransactionNew: the Kubernetes check is left out
TransactionNewSkipsKubernetes(ctx, dnsTag) == is_valid(ctx, dnsTag)

\* Transaction::new (lines 11-22): `engine.is_valid()?`, then kubernetes().is_valid()
TransactionNew(ctx, dnsTag) ==
    LET v == is_valid(ctx, dnsTag) IN
    IF v.ret # OkUnit
    THEN v
    ELSE IF ctx.kubernetes.kind = "Err"
    THEN [ret |-> ConfigErr("KubernetesNotValid", ctx.kubernetes.val),
          calls |-> Append(v.calls, Did("kubernetes.is_valid", ctx.kubernetes))]
    ELSE [ret |-> OkUnit,
          calls |-> Append(v.calls, Did("kubernetes.is_valid", ctx.kubernetes))]

\* the caller calls Transaction::new on some context
New ==
    /\ txPc = "new"
    /\ \E ctx \in Contexts, dnsTag \in Tags :
        LET n == TransactionNew(ctx, dnsTag) IN
        /\ engine' = ctx
        /\ klog' = klog \o n.calls
        /\ api' = Append(api, Did("new", n.ret))
        /\ txPc' = IF n.ret = OkUnit THEN "open" ELSE "invalid"
    /\ steps' = <<>>
    /\ executed_steps' = <<>>
    /\ UNCHANGED <<stepIdx, rbIdx, err, rollbackRet>>
    /\ UNCHANGED <<eldVars, extVars>>

\* lines 24-27: self.steps.push(Step::CreateKubernetes); Ok(())
create_kubernetes ==
    /\ txPc = "open"
    /\ Len(steps) < MaxSteps
    /\ steps' = Append(steps, "CreateKubernetes")
    /\ api' = Append(api, Did("create_kubernetes", OkUnit))
    /\ UNCHANGED <<txPc, engine, executed_steps, stepIdx, rbIdx, err, rollbackRet, klog>>
    /\ UNCHANGED <<eldVars, extVars>>

\* mutant of pause_kubernetes: the step is put at the head of the queue
pause_kubernetes_at_head ==
    /\ txPc = "open"
    /\ Len(steps) < MaxSteps
    /\ steps' = <<"PauseKubernetes">> \o steps
    /\ api' = Append(api, Did("pause_kubernetes", OkUnit))
    /\ UNCHANGED <<txPc, engine, executed_steps, stepIdx, rbIdx, err, rollbackRet, klog>>
    /\ UNCHANGED <<eldVars, extVars>>

\* lines 29-32: self.steps.push(Step::PauseKubernetes); Ok(())
pause_kubernetes ==
    /\ txPc = "open"
    /\ Len(steps) < MaxSteps
    /\ steps' = Append(steps, "PauseKubernetes")
    /\ api' = Append(api, Did("pause_kubernetes", OkUnit))
    /\ UNCHANGED <<txPc, engine, executed_steps, stepIdx, rbIdx, err, rollbackRet, klog>>
    /\ UNCHANGED <<eldVars, extVars>>

\* lines 34-37: self.steps.push(Step::DeleteKubernetes); Ok(())
delete_kubernetes ==
    /\ txPc = "open"
    /\ Len(steps) < MaxSteps
    /\ steps' = Append(steps, "DeleteKubernetes")
    /\ api' = Append(api, Did("delete_kubernetes", OkUnit))
    /\ UNCHANGED <<txPc, engine, executed_steps, stepIdx, rbIdx, err, rollbackRet, klog>>
    /\ UNCHANGED <<eldVars, extVars>>

\* lines 66-67: commit(self) is entered and starts to iterate over self.steps.clone()
Commit ==
    /\ txPc = "open"
    /\ txPc' = "loop"
    /\ stepIdx' = 1
    /\ UNCHANGED <<engine, steps, executed_steps, rbIdx, err, rollbackRet, api, klog>>
    /\ UNCHANGED <<eldVars, extVars>>

\* mutant of CommitNext: the step is not recorded before it is executed
CommitNextNoPush ==
    /\ txPc = "loop"
    /\ IF stepIdx > Len(steps)
       THEN /\ txPc' = "done"
            /\ api' = Append(api, Did("commit", TransactionOk))
       ELSE /\ txPc' = "step"
            /\ UNCHANGED api
    /\ UNCHANGED <<engine, steps, executed_steps, stepIdx, rbIdx, err, rollbackRet, klog>>
    /\ UNCHANGED <<eldVars, extVars>>

\* lines 67-69 and 105: the head of the `for` loop: the next step is pushed on
\* executed_steps, or the queue is exhausted and commit returns TransactionResult::Ok
CommitNext ==
    /\ txPc = "loop"
    /\ IF stepIdx > Len(steps)
       THEN /\ txPc' = "done"
            /\ api' = Append(api, Did("commit", TransactionOk))
            /\ UNCHANGED executed_steps
       ELSE /\ txPc' = "step"
            /\ executed_steps' = Append(executed_steps, steps[stepIdx])
            /\ UNCHANGED api
    /\ UNCHANGED <<engine, steps, stepIdx, rbIdx, err, rollbackRet, klog>>
    /\ UNCHANGED <<eldVars, extVars>>

\* mutant of CommitStep: the result of the lifecycle method is ignored
CommitStepIgnoresErr ==
    /\ txPc = "step"
    /\ \E r \in UnitResults :
        klog' = Append(klog, Did(LifecycleOf(steps[stepIdx]), r))
    /\ stepIdx' = stepIdx + 1
    /\ txPc' = "loop"
    /\ UNCHANGED <<engine, steps, executed_steps, rbIdx, err, rollbackRet, api>>
    /\ UNCHANGED <<eldVars, extVars>>

\* mutant of CommitStep: the rollback is started whatever the method returned
CommitStepAlwaysRollsBack ==
    /\ txPc = "step"
    /\ \E r \in UnitResults :
        /\ klog' = Append(klog, Did(LifecycleOf(steps[stepIdx]), r))
        /\ err' = r
    /\ txPc' = "rollback"
    /\ rbIdx' = 1
    /\ UNCHANGED stepIdx
    /\ UNCHANGED <<engine, steps, executed_steps, rollbackRet, api>>
    /\ UNCHANGED <<eldVars, extVars>>

\* lines 71-102 and 108-111, 124-127: the step's lifecycle method is called; on Ok
\* the loop goes on, on Err(err) commit_infrastructure starts the rollback
CommitStep ==
    /\ txPc = "step"
    /\ \E r \in UnitResults :
        /\ klog' = Append(klog, Did(LifecycleOf(steps[stepIdx]), r))
        /\ IF r.kind = "Ok"
           THEN /\ stepIdx' = stepIdx + 1
                /\ txPc' = "loop"
                /\ UNCHANGED <<err, rbIdx>>
           ELSE /\ err' = r
                /\ txPc' = "rollback"
                /\ rbIdx' = 1
                /\ UNCHANGED stepIdx
    /\ UNCHANGED <<engine, steps, executed_steps, rollbackRet, api>>
    /\ UNCHANGED <<eldVars, extVars>>

\* mutant of Rollback: the executed steps are rolled back last first
RollbackReversed ==
    /\ txPc = "rollback"
    /\ IF rbIdx > Len(executed_steps)
       THEN /\ rollbackRet' = OkUnit
            /\ api' = Append(api, Did("commit", TransactionError(err.val)))
            /\ txPc' = "done"
            /\ UNCHANGED <<rbIdx, klog>>
       ELSE \E r \in UnitResults :
            /\ klog' = Append(klog,
                    Did(HookOf(executed_steps[Len(executed_steps) + 1 - rbIdx]), r))
            /\ IF r.kind = "Ok"
               THEN /\ rbIdx' = rbIdx + 1
                    /\ UNCHANGED <<txPc, rollbackRet, api>>
               ELSE /\ rollbackRet' = CommitError(r.val)
                    /\ api' = Append(api, Did("commit", TransactionError(err.val)))
                    /\ txPc' = "done"
                    /\ UNCHANGED rbIdx
    /\ UNCHANGED <<engine, steps, executed_steps, stepIdx, err>>
    /\ UNCHANGED <<eldVars, extVars>>

\* mutant of Rollback: a failed rollback hook's error is what commit returns
RollbackErrorReplaces ==
    /\ txPc = "rollback"
    /\ IF rbIdx > Len(executed_steps)
       THEN /\ rollbackRet' = OkUnit
            /\ api' = Append(api, Did("commit", TransactionError(err.val)))
            /\ txPc' = "done"
            /\ UNCHANGED <<rbIdx, klog>>
       ELSE \E r \in UnitResults :
            /\ klog' = Append(klog, Did(HookOf(executed_steps[rbIdx]), r))
            /\ IF r.kind = "Ok"
               THEN /\ rbIdx' = rbIdx + 1
                    /\ UNCHANGED <<txPc, rollbackRet, api>>
               ELSE /\ rollbackRet' = CommitError(r.val)
                    /\ api' = Append(api, Did("commit", TransactionError(r.val)))
                    /\ txPc' = "done"
                    /\ UNCHANGED rbIdx
    /\ UNCHANGED <<engine, steps, executed_steps, stepIdx, err>>
    /\ UNCHANGED <<eldVars, extVars>>

\* mutant of Rollback: a failed rollback makes commit return Canceled
RollbackFailureCancels ==
    /\ txPc = "rollback"
    /\ IF rbIdx > Len(executed_steps)
       THEN /\ rollbackRet' = OkUnit
            /\ api' = Append(api, Did("commit", TransactionError(err.val)))
            /\ txPc' = "done"
            /\ UNCHANGED <<rbIdx, klog>>
       ELSE \E r \in UnitResults :
            /\ klog' = Append(klog, Did(HookOf(executed_steps[rbIdx]), r))
            /\ IF r.kind = "Ok"
               THEN /\ rbIdx' = rbIdx + 1
                    /\ UNCHANGED <<txPc, rollbackRet, api>>
               ELSE /\ rollbackRet' = CommitError(r.val)
                    /\ api' = Append(api, Did("commit", TransactionCanceled))
                    /\ txPc' = "done"
                    /\ UNCHANGED rbIdx
    /\ UNCHANGED <<engine, steps, executed_steps, stepIdx, err>>
    /\ UNCHANGED <<eldVars, extVars>>

\* rollback (lines 39-64) inside commit_infrastructure (lines 112-122), one turn of
\* its `for` loop at a time: the hook of the next executed step is called; once
\* every hook has returned Ok rollback returns Ok, at the first hook that fails it
\* returns RollbackError::CommitError; either way commit_infrastructure returns
\* TransactionResult::Error(err), which commit returns (lines 76-78, 86-88, 96-98)
Rollback ==
    /\ txPc = "rollback"
    /\ IF rbIdx > Len(executed_steps)
       THEN /\ rollbackRet' = OkUnit
            /\ api' = Append(api, Did("commit", TransactionError(err.val)))
            /\ txPc' = "done"
            /\ UNCHANGED <<rbIdx, klog>>
       ELSE \E r \in UnitResults :
            /\ klog' = Append(klog, Did(HookOf(executed_steps[rbIdx]), r))
            /\ IF r.kind = "Ok"
               THEN /\ rbIdx' = rbIdx + 1
                    /\ UNCHANGED <<txPc, rollbackRet, api>>
               ELSE /\ rollbackRet' = CommitError(r.val)
                    /\ api' = Append(api, Did("commit", TransactionError(err.val)))
                    /\ txPc' = "done"
                    /\ UNCHANGED rbIdx
    /\ UNCHANGED <<engine, steps, executed_steps, stepIdx, err>>
    /\ UNCHANGED <<eldVars, extVars>>

TxNext ==
    \/ New
    \/ create_kubernetes
    \/ pause_kubernetes
    \/ delete_kubernetes
    \/ Commit
    \/ CommitNext
    \/ CommitStep
    \/ Rollback

TxSpec == Init /\ [][TxNext]_vars

TxTypeOK ==
    /\ txPc \in {"new", "invalid", "open", "loop", "step", "rollback", "done"}
    /\ steps \in Seq(StepKinds) /\ Len(steps) <= MaxSteps
    /\ executed_steps \in Seq(StepKinds)
    /\ stepIdx \in 0..MaxSteps + 1
    /\ rbIdx \in 0..MaxSteps + 1
    /\ txPc # "new" => engine \in Contexts

\* ------------------------------------------------------------------ properties of Transaction
LifecycleOps == {"on_create", "on_pause", "on_delete"}
HookOps == {"on_create_error", "on_pause_error", "on_delete_error"}
ValidityOps == {"cloud_provider.is_valid", "dns_provider.is_valid", "kubernetes.is_valid"}

\* the calls klog holds of the methods in ops, in order
KCalls(ops) == SelectSeq(klog, LAMBDA e : e.op \in ops)
LifecycleCalls == KCalls(LifecycleOps)
HookCalls == KCalls(HookOps)
ValidityCalls == KCalls(ValidityOps)

\* what the public method op returned, None while it has not returned
ApiRet(op) ==
    LET r == SelectSeq(api, LAMBDA e : e.op = op) IN
    IF r = <<>> THEN None ELSE r[1].ret

\* the indices of a sequence of calls at which the call returned an Err
Failed(calls) == {i \in 1..Len(calls) : calls[i].ret.kind = "Err"}

\* C11: the lifecycle calls made so far are, in order, those of the first
\* queued steps: the i-th call is on_create / on_pause / on_delete according to
\* the kind of the i-th queued step, there is one call per step that has been
\* attempted, and every call but the last returned Ok.
C11_LifecycleInQueueOrder ==
    LET c == LifecycleCalls IN
    /\ Len(c) <= Len(steps)
    /\ Len(c) = IF txPc = "step" THEN Len(executed_steps) - 1 ELSE Len(executed_steps)
    /\ \A i \in 1..Len(c) :
        /\ steps[i] = "CreateKubernetes" => c[i].op = "on_create"
        /\ steps[i] = "PauseKubernetes" => c[i].op = "on_pause"
        /\ steps[i] = "DeleteKubernetes" => c[i].op = "on_delete"
        /\ i < Len(c) => c[i].ret = OkUnit

C11_Witness ==
    /\ txPc = "done"
    /\ steps = <<"CreateKubernetes", "PauseKubernetes", "DeleteKubernetes">>
    /\ Len(LifecycleCalls) = 3

\* C12: a lifecycle call that returned Err(e) is the last lifecycle call ever
\* made (no step queued after it is attempted), the rollback is started by it,
\* and once commit has returned it has returned TransactionResult::Error(e) and
\* rollback has run.
C12_ErrStopsCommit ==
    LET c == LifecycleCalls IN
    \A i \in Failed(c) :
        /\ i = Len(c)
        /\ txPc \in {"rollback", "done"}
        /\ err = c[i].ret
        /\ txPc = "done" =>
            /\ ApiRet("commit") = TransactionError(c[i].ret.val)
            /\ rollbackRet # None
            /\ HookCalls # <<>>

C12_Witness ==
    /\ txPc = "done"
    /\ Len(steps) = 3
    /\ Len(LifecycleCalls) = 1
    /\ LifecycleCalls[1].ret = Err(2)

\* C13: once commit has returned after a failed step and rollback has returned
\* Ok, the rollback hooks called are, in order, exactly one per step attempted
\* (the steps that succeeded and the one that failed, in queue order), each the
\* hook of that step's kind.
C13_RollbackForwardOrder ==
    txPc = "done" /\ err # None /\ rollbackRet = OkUnit =>
        LET h == HookCalls IN
        /\ Len(h) = Len(LifecycleCalls)
        /\ Len(h) = Len(executed_steps)
        /\ \A i \in 1..Len(h) :
            /\ steps[i] = "CreateKubernetes" => h[i].op = "on_create_error"
            /\ steps[i] = "PauseKubernetes" => h[i].op = "on_pause_error"
            /\ steps[i] = "DeleteKubernetes" => h[i].op = "on_delete_error"

C13_Witness ==
    /\ txPc = "done"
    /\ steps = <<"CreateKubernetes", "DeleteKubernetes">>
    /\ rollbackRet = OkUnit
    /\ [i \in 1..Len(klog) |-> klog[i].op] =
        <<"cloud_provider.is_valid", "dns_provider.is_valid", "kubernetes.is_valid",
          "on_create", "on_delete", "on_create_error", "on_delete_error">>

\* C14: a rollback hook that returned Err is the last collaborator call ever
\* made: rollback has returned RollbackError::CommitError with that error, and
\* commit has returned TransactionResult::Error with the error of the step that
\* failed.
C14_RollbackFailureKeepsError ==
    LET h == HookCalls
        c == LifecycleCalls IN
    \A i \in Failed(h) :
        /\ i = Len(h)
        /\ klog[Len(klog)] = h[i]
        /\ txPc = "done"
        /\ rollbackRet = CommitError(h[i].ret.val)
        /\ ApiRet("commit") = TransactionError(c[Len(c)].ret.val)

C14_Witness ==
    /\ txPc = "done"
    /\ Len(executed_steps) = 2
    /\ LifecycleCalls[2].ret = Err(1)
    /\ Len(HookCalls) = 1
    /\ HookCalls[1].ret = Err(2)
    /\ ApiRet("commit") = TransactionError(1)

\* C15: as long as no lifecycle call has returned Err, no rollback hook has
\* been called and rollback has not run; if commit has then returned, every
\* queued step was executed and it returned TransactionResult::Ok.
C15_NoRollbackWithoutFailure ==
    Failed(LifecycleCalls) = {} =>
        /\ HookCalls = <<>>
        /\ rollbackRet = None
        /\ txPc # "rollback"
        /\ txPc = "done" =>
            /\ ApiRet("commit") = TransactionOk
            /\ Len(LifecycleCalls) = Len(steps)

C15_Witness ==
    /\ txPc = "done"
    /\ Len(steps) = 2
    /\ ApiRet("commit") = TransactionOk

\* C16: executed_steps is always a prefix of the queue; a step is in it before
\* its lifecycle method is called (so when rollback runs its last entry is the
\* step that failed); and it changes only by one step being appended.
C16_ExecutedStepsGrowsByPush ==
    /\ [](/\ Len(executed_steps) <= Len(steps)
          /\ executed_steps = SubSeq(steps, 1, Len(executed_steps))
          /\ Len(LifecycleCalls) <= Len(executed_steps)
          /\ txPc = "step" => Len(executed_steps) = Len(LifecycleCalls) + 1
          /\ txPc = "rollback" =>
              /\ executed_steps # <<>>
              /\ Len(executed_steps) = Len(LifecycleCalls)
              /\ LifecycleCalls[Len(LifecycleCalls)].ret = err)
    /\ [][\/ executed_steps' = executed_steps
          \/ \E k \in StepKinds : executed_steps' = Append(executed_steps, k)]_vars

C16_Witness ==
    /\ txPc = "rollback"
    /\ rbIdx = 1
    /\ executed_steps = <<"PauseKubernetes", "CreateKubernetes">>
    /\ Len(steps) = 3

\* C17: a step in which create_kubernetes, pause_kubernetes or delete_kubernetes
\* returns: it returns Ok, the queue is the old queue with one step of the
\* matching kind appended, and executed_steps and the collaborator calls are as
\* they were.
C17_EnqueueOnlyAppends ==
    [][Len(api') = Len(api) + 1
       /\ api'[Len(api')].op \in {"create_kubernetes", "pause_kubernetes", "delete_kubernetes"}
       => /\ api'[Len(api')].ret = OkUnit
          /\ steps' = Append(steps,
                CASE api'[Len(api')].op = "create_kubernetes" -> "CreateKubernetes"
                  [] api'[Len(api')].op = "pause_kubernetes" -> "PauseKubernetes"
                  [] api'[Len(api')].op = "delete_kubernetes" -> "DeleteKubernetes")
          /\ executed_steps' = executed_steps
          /\ klog' = klog
          /\ txPc' = txPc]_vars

C17_Witness ==
    /\ txPc = "open"
    /\ steps = <<"CreateKubernetes", "PauseKubernetes", "DeleteKubernetes">>
    /\ Len(api) = 4

\* C18: the is_valid calls are made in the order cloud provider, DNS provider,
\* Kubernetes, each only if the ones before it returned Ok; if the cloud
\* provider is invalid, new returns CloudProviderNotValid with its error, no
\* other collaborator is called, no Transaction exists and no step is queued or
\* executed.
C18_ValidationShortCircuits ==
    txPc # "new" =>
        LET v == ValidityCalls IN
        /\ Len(v) >= 1 /\ Len(v) <= 3
        /\ v[1] = Did("cloud_provider.is_valid", engine.cloud_provider)
        /\ Len(v) >= 2 => v[2] = Did("dns_provider.is_valid", engine.dns_provider)
        /\ Len(v) >= 3 => v[3] = Did("kubernetes.is_valid", engine.kubernetes)
        /\ \A i \in 1..Len(v) - 1 : v[i].ret = OkUnit
        /\ Len(v) < 3 => v[Len(v)].ret.kind = "Err"
        /\ engine.cloud_provider.kind = "Err" =>
            /\ ApiRet("new") = ConfigErr("CloudProviderNotValid", engine.cloud_provider.val)
            /\ klog = <<Did("cloud_provider.is_valid", engine.cloud_provider)>>
            /\ txPc = "invalid"
            /\ steps = <<>>
            /\ executed_steps = <<>>
            /\ Len(api) = 1

C18_Witness ==
    /\ txPc = "invalid"
    /\ engine.cloud_provider = Err(1)
    /\ engine.dns_provider = Err(2)
    /\ engine.kubernetes = Err(2)

\* C19 (as claimed): new returns an Err whenever one of the four collaborators
\* (build platform, cloud provider, DNS provider, Kubernetes) is invalid, of the
\* variant of an invalid collaborator, and Ok only when all four are valid.
C19_AnyInvalidCollaboratorRejected ==
    txPc # "new" =>
        LET r == ApiRet("new")
            bad == {c \in {"build_platform", "cloud_provider", "dns_provider", "kubernetes"} :
                        engine[c].kind = "Err"} IN
        /\ r = OkUnit <=> bad = {}
        /\ r.kind = "BuildPlatformNotValid" => "build_platform" \in bad
        /\ r.kind = "CloudProviderNotValid" => "cloud_provider" \in bad
        /\ r.kind = "DnsProviderNotValid" => "dns_provider" \in bad
        /\ r.kind = "KubernetesNotValid" => "kubernetes" \in bad

\* C19 (amended): new returns an Err whenever the cloud provider, the DNS
\* provider or Kubernetes is invalid, of the variant of the first invalid one in
\* that order, and Ok exactly when these three are valid; the build platform is
\* not consulted and BuildPlatformNotValid is never returned.
C19_InvalidCloudDnsKubernetesRejected ==
    txPc # "new" =>
        LET r == ApiRet("new") IN
        /\ r.kind = "CloudProviderNotValid" <=> engine.cloud_provider.kind = "Err"
        /\ r.kind = "DnsProviderNotValid" <=>
            engine.cloud_provider = OkUnit /\ engine.dns_provider.kind = "Err"
        /\ r.kind = "KubernetesNotValid" <=>
            /\ engine.cloud_provider = OkUnit
            /\ engine.dns_provider = OkUnit
            /\ engine.kubernetes.kind = "Err"
        /\ r = OkUnit <=>
            /\ engine.cloud_provider = OkUnit
            /\ engine.dns_provider = OkUnit
            /\ engine.kubernetes = OkUnit
        /\ r.kind \in {"Ok", "CloudProviderNotValid", "DnsProviderNotValid", "KubernetesNotValid"}
        /\ r.kind = "CloudProviderNotValid" => r.val = engine.cloud_provider.val
        /\ r.kind = "KubernetesNotValid" => r.val = engine.kubernetes.val
        /\ txPc = "invalid" <=> r # OkUnit

\* new has returned Ok for a context whose build platform is invalid
C19_Witness == txPc = "open" /\ engine.build_platform = Err(1) /\ ApiRet("new") = OkUnit

\* C20: no kind of Step can be canceled, and what commit returns is
\* TransactionResult::Ok or TransactionResult::Error, never Canceled.
C20_CommitNeverCanceled ==
    /\ \A k \in StepKinds : ~can_be_canceled(k)
    /\ \A i \in 1..Len(api) : api[i].op = "commit" =>
        /\ api[i].ret # TransactionCanceled
        /\ api[i].ret.kind \in {"TransactionResult::Ok", "TransactionResult::Error"}
    /\ txPc = "done" => ApiRet("commit") # None

C20_Witness ==
    /\ txPc = "done"
    /\ rollbackRet = CommitError(1)
    /\ ApiRet("commit") = TransactionError(2)

\* ================================================================== errors
\* Part 3: CommandError and EngineError (src/src/errors/mod.rs).  A String is a
\* sequence of tokens; the literals of a format string are tokens of their own.
\* An Option is a sequence of length 0 (None) or 1 (Some).

\* number of environment variables a CommandError captures at most
MaxEnvVars == 2

Some(x) == <<x>>
Option(S) == {<<>>} \cup {Some(x) : x \in S}

\* the texts a caller passes in: safe messages, raw messages, environment
\* variables; none is empty and no token of one occurs in another
SafeTexts == {<<"safe1", "safe2">>}
RawTexts == {<<"raw1">>, <<"raw2", "raw1">>}
EnvPairs == {<<<<"KEY1">>, <<"value1">>>>, <<<<"KEY2">>, <<"value2", "value1">>>>}
EnvLists == UNION {[1..n -> EnvPairs] : n \in 0..MaxEnvVars}

\* str::contains
Contains(text, sub) ==
    \E i \in 0..(Len(text) - Len(sub)) : SubSeq(text, i + 1, i + Len(sub)) = sub

\* [String]::join(sep)
RECURSIVE JoinText(_, _)
JoinText(strs, sep) ==
    IF Len(strs) = 0 THEN <<>>
    ELSE IF Len(strs) = 1 THEN strs[1]
    ELSE strs[1] \o sep \o JoinText(Tail(strs), sep)

\* enum ErrorMessageVerbosity
Verbosities == {"SafeOnly", "FullDetailsWithoutEnvVars", "FullDetails"}

\* struct CommandError, built by CommandError::new (lines 105-111)
CommandErrors == [message_safe : SafeTexts, full_details : Option(RawTexts),
                  env_vars : Option(EnvLists)]

\* lines 87-93: env_vars.iter().map(|(k, v)| format!("{}={}", k, v)).join(" ")
EnvVarsText(env_vars) ==
    JoinText([i \in 1..Len(env_vars) |-> env_vars[i][1] \o <<"=">> \o env_vars[i][2]],
         <<" ">>)

\* mutant of CommandError_message: FullDetails leaves the env vars out
CommandError_message_drops_env(e, verbosity) ==
    IF verbosity = "SafeOnly" THEN e.message_safe
    ELSE IF e.full_details = <<>> THEN e.message_safe
    ELSE e.message_safe \o <<" / Full details: ">> \o e.full_details[1]

\* mutant of CommandError_message: FullDetails renders the env vars also when
\* there are no full details
CommandError_message_env_without_details(e, verbosity) ==
    CASE verbosity = "SafeOnly" -> e.message_safe
      [] verbosity = "FullDetailsWithoutEnvVars" ->
            IF e.full_details = <<>> THEN e.message_safe
            ELSE e.message_safe \o <<" / Full details: ">> \o e.full_details[1]
      [] verbosity = "FullDetails" ->
            (IF e.full_details = <<>> THEN e.message_safe
             ELSE e.message_safe \o <<" / Full details: ">> \o e.full_details[1])
            \o (IF e.env_vars = <<>> THEN <<>>
                ELSE <<" / Env vars: ">> \o EnvVarsText(e.env_vars[1]))

\* CommandError::message (lines 71-97)
CommandError_message(e, verbosity) ==
    CASE verbosity = "SafeOnly" -> e.message_safe
      [] verbosity = "FullDetailsWithoutEnvVars" ->
            IF e.full_details = <<>> THEN e.message_safe
            ELSE e.message_safe \o <<" / Full details: ">> \o e.full_details[1]
      [] verbosity = "FullDetails" ->
            IF e.full_details = <<>> THEN e.message_safe
            ELSE IF e.env_vars = <<>>
            THEN e.message_safe \o <<" / Full details: ">> \o e.full_details[1]
            ELSE e.message_safe \o <<" / Full details: ">> \o e.full_details[1]
                 \o <<" / Env vars: ">> \o EnvVarsText(e.env_vars[1])

\* impl Display for CommandError (lines 157-161)
CommandError_fmt(e) == CommandError_message(e, "SafeOnly")

\* {:?} of a String: the text between quotes
DebugStr(text) == <<"\"">> \o text \o <<"\"">>

\* {:?} of an Option<String>
DebugOptStr(o) ==
    IF o = <<>> THEN <<"None">> ELSE <<"Some(">> \o DebugStr(o[1]) \o <<")">>

\* mutant of CommandError_debug: the env_vars field is printed as well
CommandError_debug_with_env(e) ==
    <<"CommandError {", "full_details: ">> \o DebugOptStr(e.full_details)
    \o <<", ", "message_safe: ">> \o DebugStr(e.message_safe)
    \o <<", ", "env_vars: ">>
    \o (IF e.env_vars = <<>> THEN <<"None">>
        ELSE <<"Some(">> \o EnvVarsText(e.env_vars[1]) \o <<")">>)
    \o <<" }">>

\* the derived Debug of CommandError (lines 35-46): env_vars is marked
\* #[derivative(Debug = "ignore")]
CommandError_debug(e) ==
    <<"CommandError {", "full_details: ">> \o DebugOptStr(e.full_details)
    \o <<", ", "message_safe: ">> \o DebugStr(e.message_safe) \o <<" }">>

\* enum Tag (lines 502-827), by two of its variants
ErrorTags == {"K8sCannotDeletePvc", "TaskCancellationRequested"}

\* Tag::is_cancel (lines 829-833)
is_cancel(tag) == tag = "TaskCancellationRequested"

\* a Stage: the pipeline phase, the step, and whether the step is starting, is
\* done, has failed or was cancelled.  Infrastructure(InfrastructureStep::Create)
\* is Stage("Infrastructure", "Create", "Start"), InfrastructureStep::CreateError
\* is Stage("Infrastructure", "Create", "Error"), InfrastructureStep::Created is
\* Stage("Infrastructure", "Create", "Done")
Stage(phase, step, status) == [phase |-> phase, step |-> step, status |-> status]

\* the stages a caller passes in
Stages == {Stage("Infrastructure", "Create", "Start"),
           Stage("Infrastructure", "Create", "Done"),
           Stage("Environment", "Deploy", "Start")}

\* EventDetails::new: the record of its six arguments
EventDetails_new(provider_kind, organisation_id, cluster_id, execution_id, stage, transmitter) ==
    [provider_kind |-> provider_kind, organisation_id |-> organisation_id,
     cluster_id |-> cluster_id, execution_id |-> execution_id, stage |-> stage,
     transmitter |-> transmitter]

\* the EventDetails a caller passes in
EventDetailsSet ==
    {EventDetails_new(Some("Scw"), "org1", "cluster1", x, s, "Kubernetes") :
        x \in {"exec1", "exec2"}, s \in Stages}

\* EventDetails::mut_to_error_stage: the stage becomes the Error stage of its step
mut_to_error_stage(event_details) ==
    [event_details EXCEPT !.stage.status = "Error"]

\* EventDetails::mut_to_cancel_stage: the stage becomes the Cancel stage of its step
mut_to_cancel_stage(event_details) ==
    [event_details EXCEPT !.stage.status = "Cancel"]

\* mutant of EngineError_new: every error is put in an Error stage
EngineError_new_always_error(event_details, tag, user_log_message, underlying_error, link, hint_message) ==
    [tag |-> tag,
     event_details |-> mut_to_error_stage(event_details),
     user_log_message |-> user_log_message,
     underlying_error |-> underlying_error,
     link |-> link,
     hint_message |-> hint_message]

\* EngineError::new (lines 901-923)
EngineError_new(event_details, tag, user_log_message, underlying_error, link, hint_message) ==
    [tag |-> tag,
     event_details |-> IF is_cancel(tag) THEN mut_to_cancel_stage(event_details)
                       ELSE mut_to_error_stage(event_details),
     user_log_message |-> user_log_message,
     underlying_error |-> underlying_error,
     link |-> link,
     hint_message |-> hint_message]

\* mutant of clone_engine_error_with_stage: the clone goes through
\* EngineError::new, which forces the stage again
clone_engine_error_with_stage_recoerced(e, stage) ==
    EngineError_new(
        EventDetails_new(e.event_details.provider_kind, e.event_details.organisation_id,
                         e.event_details.cluster_id, e.event_details.execution_id,
                         stage, e.event_details.transmitter),
        e.tag, e.user_log_message, e.underlying_error, e.link, e.hint_message)

\* EngineError::clone_engine_error_with_stage (lines 929-945)
clone_engine_error_with_stage(e, stage) ==
    [tag |-> e.tag,
     event_details |->
        EventDetails_new(e.event_details.provider_kind, e.event_details.organisation_id,
                         e.event_details.cluster_id, e.event_details.execution_id,
                         stage, e.event_details.transmitter),
     user_log_message |-> e.user_log_message,
     underlying_error |-> e.underlying_error,
     link |-> e.link,
     hint_message |-> e.hint_message]

\* EngineError::message (lines 869-874)
EngineError_message(e, verbosity) ==
    IF e.underlying_error # <<>>
    THEN CommandError_message(e.underlying_error[1], verbosity)
    ELSE e.user_log_message

\* mutant of EngineError_fmt: Display asks for every detail
EngineError_fmt_full(e) == EngineError_message(e, "FullDetails")

\* impl Display for EngineError (lines 3750-3755)
EngineError_fmt(e) == EngineError_message(e, "FullDetailsWithoutEnvVars")

\* {:?} of an EventDetails: its fields, none of which holds a CommandError
EventDetails_debug(d) ==
    <<"EventDetails {", d.organisation_id, d.cluster_id, d.execution_id,
      d.stage.phase, d.stage.step, d.stage.status, d.transmitter, "}">>

\* the derived Debug of EngineError (line 835): every field with its own Debug
EngineError_debug(e) ==
    <<"EngineError {", "tag: ", e.tag, ", ", "event_details: ">>
    \o EventDetails_debug(e.event_details)
    \o <<", ", "user_log_message: ">> \o DebugStr(e.user_log_message)
    \o <<", ", "underlying_error: ">>
    \o (IF e.underlying_error = <<>> THEN <<"None">>
        ELSE <<"Some(">> \o CommandError_debug(e.underlying_error[1]) \o <<")">>)
    \o <<", ", "link: ">> \o DebugOptStr(e.link)
    \o <<", ", "hint_message: ">> \o DebugOptStr(e.hint_message)
    \o <<" }">>

\* the arguments of one call of EngineError::new
NewArgs == [event_details : EventDetailsSet, tag : ErrorTags,
            user_log_message : {<<"user1">>},
            link : Option({<<"https://hub.qovery.com/">>}),
            hint_message : Option({<<"hint1">>})]

\* what a rendering leaves in out
Rendering(subject, how, verbosity, text) ==
    [subject |-> subject, how |-> how, verbosity |-> verbosity, text |-> text]

\* a caller builds a CommandError with CommandError::new (lines 105-111)
BuildCommandError ==
    /\ command_err = <<>>
    /\ \E e \in CommandErrors : command_err' = Some(e)
    /\ UNCHANGED <<engine_err, new_args, cloned, clone_stage, out>>
    /\ UNCHANGED <<eldVars, txVars, daVars, taskVars, ticks, buildVars>>

\* a named constructor builds an EngineError with EngineError::new, around the
\* CommandError that was built or around none
BuildEngineError ==
    /\ engine_err = <<>>
    /\ \E a \in NewArgs, u \in {<<>>, command_err} :
        /\ new_args' = Some([event_details |-> a.event_details, tag |-> a.tag,
                             user_log_message |-> a.user_log_message,
                             underlying_error |-> u, link |-> a.link,
                             hint_message |-> a.hint_message])
        /\ engine_err' = Some(EngineError_new(a.event_details, a.tag, a.user_log_message,
                                              u, a.link, a.hint_message))
    /\ UNCHANGED <<command_err, cloned, clone_stage, out>>
    /\ UNCHANGED <<eldVars, txVars, daVars, taskVars, ticks, buildVars>>

\* command_err.message(verbosity)
RenderCommandErrorMessage ==
    /\ command_err # <<>>
    /\ \E v \in Verbosities :
        out' = Some(Rendering("CommandError", "message", v,
                              CommandError_message(command_err[1], v)))
    /\ UNCHANGED <<command_err, engine_err, new_args, cloned, clone_stage>>
    /\ UNCHANGED <<eldVars, txVars, daVars, taskVars, ticks, buildVars>>

\* format!("{}", command_err)
RenderCommandErrorDisplay ==
    /\ command_err # <<>>
    /\ out' = Some(Rendering("CommandError", "Display", "-",
                             CommandError_fmt(command_err[1])))
    /\ UNCHANGED <<command_err, engine_err, new_args, cloned, clone_stage>>
    /\ UNCHANGED <<eldVars, txVars, daVars, taskVars, ticks, buildVars>>

\* format!("{:?}", command_err)
RenderCommandErrorDebug ==
    /\ command_err # <<>>
    /\ out' = Some(Rendering("CommandError", "Debug", "-",
                             CommandError_debug(command_err[1])))
    /\ UNCHANGED <<command_err, engine_err, new_args, cloned, clone_stage>>
    /\ UNCHANGED <<eldVars, txVars, daVars, taskVars, ticks, buildVars>>

\* engine_err.message(verbosity)
RenderEngineErrorMessage ==
    /\ engine_err # <<>>
    /\ \E v \in Verbosities :
        out' = Some(Rendering("EngineError", "message", v,
                              EngineError_message(engine_err[1], v)))
    /\ UNCHANGED <<command_err, engine_err, new_args, cloned, clone_stage>>
    /\ UNCHANGED <<eldVars, txVars, daVars, taskVars, ticks, buildVars>>

\* format!("{}", engine_err)
RenderEngineErrorDisplay ==
    /\ engine_err # <<>>
    /\ out' = Some(Rendering("EngineError", "Display", "-",
                             EngineError_fmt(engine_err[1])))
    /\ UNCHANGED <<command_err, engine_err, new_args, cloned, clone_stage>>
    /\ UNCHANGED <<eldVars, txVars, daVars, taskVars, ticks, buildVars>>

\* format!("{:?}", engine_err)
RenderEngineErrorDebug ==
    /\ engine_err # <<>>
    /\ out' = Some(Rendering("EngineError", "Debug", "-",
                             EngineError_debug(engine_err[1])))
    /\ UNCHANGED <<command_err, engine_err, new_args, cloned, clone_stage>>
    /\ UNCHANGED <<eldVars, txVars, daVars, taskVars, ticks, buildVars>>

\* engine_err.clone_engine_error_with_stage(stage)
CloneEngineError ==
    /\ engine_err # <<>>
    /\ \E stage \in Stages :
        /\ clone_stage' = Some(stage)
        /\ cloned' = Some(clone_engine_error_with_stage(engine_err[1], stage))
    /\ UNCHANGED <<command_err, engine_err, new_args, out>>
    /\ UNCHANGED <<eldVars, txVars, daVars, taskVars, ticks, buildVars>>

ErrNext ==
    \/ BuildCommandError
    \/ BuildEngineError
    \/ RenderCommandErrorMessage
    \/ RenderCommandErrorDisplay
    \/ RenderCommandErrorDebug
    \/ RenderEngineErrorMessage
    \/ RenderEngineErrorDisplay
    \/ RenderEngineErrorDebug
    \/ CloneEngineError

ErrSpec == Init /\ [][ErrNext]_vars

\* ------------------------------------------------------------------ properties
\* the rendering in out, of CommandError e or EngineError e
CommandErrorRendered(e, r) ==
    CASE r.how = "message" -> CommandError_message(e, r.verbosity)
      [] r.how = "Display" -> CommandError_fmt(e)
      [] r.how = "Debug" -> CommandError_debug(e)

EngineErrorRendered(e, r) ==
    CASE r.how = "message" -> EngineError_message(e, r.verbosity)
      [] r.how = "Display" -> EngineError_fmt(e)
      [] r.how = "Debug" -> EngineError_debug(e)

\* text holds the key or the value of one of the environment variables
HasEnvVar(text, envs) ==
    \E i \in 1..Len(envs) : Contains(text, envs[i][1]) \/ Contains(text, envs[i][2])

\* text holds the key and the value of every one of the environment variables
HasEveryEnvVar(text, envs) ==
    \A i \in 1..Len(envs) : Contains(text, envs[i][1]) /\ Contains(text, envs[i][2])

\* C21: for a CommandError built with a safe message, Some(raw) and Some(envs),
\* message(SafeOnly) holds neither the raw text nor the key or value of any env
\* var; message(FullDetailsWithoutEnvVars) holds the safe message and the raw text
\* but the key or value of no env var; message(FullDetails) holds the safe
\* message, the raw text and the key and the value of every env var.
C21_MessageByVerbosity ==
    (/\ out # <<>>
     /\ out[1].subject = "CommandError"
     /\ out[1].how = "message"
     /\ command_err[1].full_details # <<>>
     /\ command_err[1].env_vars # <<>>) =>
        LET text == out[1].text
            safe == command_err[1].message_safe
            raw == command_err[1].full_details[1]
            envs == command_err[1].env_vars[1]
        IN  CASE out[1].verbosity = "SafeOnly" ->
                    /\ ~Contains(text, raw)
                    /\ ~HasEnvVar(text, envs)
              [] out[1].verbosity = "FullDetailsWithoutEnvVars" ->
                    /\ Contains(text, safe)
                    /\ Contains(text, raw)
                    /\ ~HasEnvVar(text, envs)
              [] out[1].verbosity = "FullDetails" ->
                    /\ Contains(text, safe)
                    /\ Contains(text, raw)
                    /\ HasEveryEnvVar(text, envs)

C21_Witness ==
    /\ out # <<>>
    /\ out[1].subject = "CommandError"
    /\ out[1].how = "message"
    /\ out[1].verbosity = "FullDetails"
    /\ command_err[1].full_details = Some(<<"raw2", "raw1">>)
    /\ command_err[1].env_vars # <<>>
    /\ Len(command_err[1].env_vars[1]) = 2
    /\ command_err[1].env_vars[1][1] # command_err[1].env_vars[1][2]

\* the EngineErrors that differ from e at most in the full_details and the
\* env_vars of the underlying CommandError
SameButUnsafe(e) ==
    IF e.underlying_error = <<>> THEN {e}
    ELSE {[e EXCEPT !.underlying_error = Some([e.underlying_error[1] EXCEPT
                        !.full_details = fd, !.env_vars = envs])] :
            fd \in Option(RawTexts), envs \in Option(EnvLists)}

\* the EngineErrors that differ from e at most in the env_vars of the
\* underlying CommandError
SameButEnvVars(e) ==
    IF e.underlying_error = <<>> THEN {e}
    ELSE {[e EXCEPT !.underlying_error = Some([e.underlying_error[1] EXCEPT
                        !.env_vars = envs])] : envs \in Option(EnvLists)}

\* C22, as the specification states it: the Display of an EngineError never
\* holds the full_details of the underlying CommandError, and two EngineErrors
\* that differ only in the full_details and env_vars of the underlying error
\* display identically.
C22_DisplayOnlySafe ==
    (out # <<>> /\ out[1].subject = "EngineError" /\ out[1].how = "Display") =>
        LET e == engine_err[1] IN
        /\ (e.underlying_error # <<>> /\ e.underlying_error[1].full_details # <<>>) =>
                ~Contains(out[1].text, e.underlying_error[1].full_details[1])
        /\ \A e2 \in SameButUnsafe(e) : EngineError_fmt(e2) = out[1].text

\* C22, amended: the Display of an EngineError is the user message when there is
\* no underlying error; otherwise it holds the safe message of the underlying
\* CommandError, holds its full_details when it has some, and holds the key or
\* value of no env var: two EngineErrors that differ only in the env_vars of the
\* underlying error display identically.
C22_DisplayOmitsOnlyEnvVars ==
    (out # <<>> /\ out[1].subject = "EngineError" /\ out[1].how = "Display") =>
        LET e == engine_err[1]
            text == out[1].text
        IN
        /\ e.underlying_error = <<>> => text = e.user_log_message
        /\ e.underlying_error # <<>> =>
            /\ Contains(text, e.underlying_error[1].message_safe)
            /\ e.underlying_error[1].full_details # <<>> =>
                    Contains(text, e.underlying_error[1].full_details[1])
            /\ e.underlying_error[1].env_vars # <<>> =>
                    ~HasEnvVar(text, e.underlying_error[1].env_vars[1])
        /\ \A e2 \in SameButEnvVars(e) : EngineError_fmt(e2) = text

C22_Witness ==
    /\ out # <<>>
    /\ out[1].subject = "EngineError"
    /\ out[1].how = "Display"
    /\ engine_err[1].underlying_error # <<>>
    /\ engine_err[1].underlying_error[1].full_details = Some(<<"raw1">>)
    /\ engine_err[1].underlying_error[1].env_vars # <<>>
    /\ Len(engine_err[1].underlying_error[1].env_vars[1]) = 2
    /\ Contains(out[1].text, <<"raw1">>)

\* C23: the env vars of a CommandError have no influence on the Display or the
\* Debug of the CommandError or of an EngineError around it, nor on message() at
\* SafeOnly or FullDetailsWithoutEnvVars of either: two errors that differ only
\* in env_vars give the same text there, which holds the key or value of no env
\* var; message(FullDetails) is the one rendering that holds them.
C23_EnvVarsNeverInfluence ==
    out # <<>> =>
        LET r == out[1]
            c == IF r.subject = "CommandError" THEN command_err
                 ELSE engine_err[1].underlying_error
        IN
        IF r.how = "message" /\ r.verbosity = "FullDetails"
        THEN (c # <<>> /\ c[1].full_details # <<>> /\ c[1].env_vars # <<>>) =>
                HasEveryEnvVar(r.text, c[1].env_vars[1])
        ELSE /\ (c # <<>> /\ c[1].env_vars # <<>>) => ~HasEnvVar(r.text, c[1].env_vars[1])
             /\ IF r.subject = "CommandError"
                THEN \A envs \in Option(EnvLists) :
                        CommandErrorRendered([command_err[1] EXCEPT !.env_vars = envs], r)
                            = r.text
                ELSE \A e2 \in SameButEnvVars(engine_err[1]) :
                        EngineErrorRendered(e2, r) = r.text

C23_Witness ==
    /\ out # <<>>
    /\ out[1].subject = "EngineError"
    /\ out[1].how = "Debug"
    /\ engine_err[1].underlying_error # <<>>
    /\ engine_err[1].underlying_error[1].full_details # <<>>
    /\ engine_err[1].underlying_error[1].env_vars # <<>>
    /\ Len(engine_err[1].underlying_error[1].env_vars[1]) = 2

\* the fields of an EventDetails other than its stage
OtherEventDetailsFields ==
    {"provider_kind", "organisation_id", "cluster_id", "execution_id", "transmitter"}

\* C24: an EngineError built through EngineError::new has the stage of its
\* EventDetails forced: to a Cancel stage if and only if the tag is
\* TaskCancellationRequested, otherwise to an Error stage; the tag and the
\* other fields of the EventDetails are those passed in.
C24_StageForcedAtConstruction ==
    engine_err # <<>> =>
        LET e == engine_err[1]
            a == new_args[1]
        IN
        /\ e.event_details.stage.status = "Cancel" <=> a.tag = "TaskCancellationRequested"
        /\ a.tag # "TaskCancellationRequested" => e.event_details.stage.status = "Error"
        /\ e.tag = a.tag
        /\ \A f \in OtherEventDetailsFields : e.event_details[f] = a.event_details[f]

C24_Witness ==
    /\ engine_err # <<>>
    /\ new_args[1].tag = "TaskCancellationRequested"
    /\ new_args[1].event_details.stage.status = "Start"
    /\ engine_err[1].event_details.stage.status = "Cancel"

\* C25: clone_engine_error_with_stage(stage) returns an error whose stage is
\* exactly the given stage, not forced to an Error or Cancel stage again, and
\* whose tag, user message, underlying error, link, hint and other EventDetails
\* fields are the original's; the original error is left as it was.
C25_CloneKeepsAllButStage ==
    /\ [](cloned # <<>> =>
            /\ cloned[1].event_details.stage = clone_stage[1]
            /\ cloned[1].tag = engine_err[1].tag
            /\ cloned[1].user_log_message = engine_err[1].user_log_message
            /\ cloned[1].underlying_error = engine_err[1].underlying_error
            /\ cloned[1].link = engine_err[1].link
            /\ cloned[1].hint_message = engine_err[1].hint_message
            /\ \A f \in OtherEventDetailsFields :
                    cloned[1].event_details[f] = engine_err[1].event_details[f])
    /\ [][cloned' # cloned => engine_err' = engine_err]_vars

C25_Witness ==
    /\ cloned # <<>>
    /\ clone_stage = Some(Stage("Infrastructure", "Create", "Done"))
    /\ engine_err[1].event_details.stage.status = "Error"
    /\ engine_err[1].underlying_error # <<>>
    /\ cloned[1].event_details.stage.status = "Done"

\* out is a rendering of command_err by CommandError::message
MessageRendered ==
    /\ out # <<>>
    /\ out[1].subject = "CommandError"
    /\ out[1].how = "message"

\* the tiers of ErrorMessageVerbosity, from the least to the most verbose
VerbosityRank(verbosity) ==
    CASE verbosity = "SafeOnly" -> 1
      [] verbosity = "FullDetailsWithoutEnvVars" -> 2
      [] verbosity = "FullDetails" -> 3

\* C38: a CommandError without full_details renders as exactly its safe message
\* at every verbosity, so its env vars are not rendered even at FullDetails; and
\* of two message() renderings of one CommandError, the text of the less
\* verbose one is contained in the text of the more verbose one.
C38_TiersAdditive ==
    /\ [](MessageRendered /\ command_err[1].full_details = <<>>
            => out[1].text = command_err[1].message_safe)
    /\ [][(/\ MessageRendered
           /\ MessageRendered'
           /\ command_err' = command_err
           /\ VerbosityRank(out[1].verbosity) <= VerbosityRank(out'[1].verbosity))
            => Contains(out'[1].text, out[1].text)]_vars

C38_Witness ==
    /\ MessageRendered
    /\ out[1].verbosity = "FullDetails"
    /\ command_err[1].full_details = <<>>
    /\ command_err[1].env_vars # <<>>
    /\ out[1].text = command_err[1].message_safe

\* ================================================================== DeploymentAction
\* Part 4: DeploymentAction::exec_action (src/src/deployment_action/mod.rs) on a
\* Container (src/src/deployment_action/deploy_container.rs), whose hooks run
\* execute_long_deployment (Part 1) with the Container's closures as the task.

\* enum Action (cloud_provider/service.rs, lines 129-135)
Actions == {"Create", "Pause", "Delete", "Nothing"}

\* the DeploymentTargets a caller passes in
Targets == {"target1", "target2"}

\* what exec_action is when no arm of its match applies: it has no result
NoArm == [kind |-> "NoArm", val |-> 0]

\* exec_action, lines 25-29: the hook the arm of the match calls; the match has
\* the arms Create, Delete and Pause, and none for Action::Nothing
exec_action(action) ==
    CASE action = "Create" -> "on_create"
      [] action = "Delete" -> "on_delete"
      [] action = "Pause" -> "on_pause"
      [] OTHER -> "no arm"

\* one entry of hook_calls
HookCall(hook, target, ret) == [hook |-> hook, target |-> target, ret |-> ret]

\* the hook that is running
CurrentHook == hook_calls[Len(hook_calls)].hook

\* exec_action(deployment_target, action) is called and its match picks the hook
ExecAction ==
    /\ da_pc = "idle"
    /\ \E target \in Targets, action \in Actions :
        /\ da_target' = Some(target)
        /\ da_action' = Some(action)
        /\ IF exec_action(action) = "no arm"
           THEN /\ da_ret' = Some(NoArm)
                /\ da_pc' = "done"
                /\ UNCHANGED hook_calls
           ELSE /\ hook_calls' = Append(hook_calls,
                                        HookCall(exec_action(action), target, <<>>))
                /\ da_pc' = "in_hook"
                /\ UNCHANGED da_ret
    /\ UNCHANGED cleanup
    /\ UNCHANGED <<eldVars, txVars, errVars, taskVars, ticks, buildVars>>

\* deploy_container.rs, lines 111, 122, 216: the hook calls execute_long_deployment
HookPreRunCall ==
    /\ da_pc = "in_hook"
    /\ PreRunCall

\* the pre_run of the hook returns: on_create's pre_task (lines 33-58) can fail
\* in mirror_image, on_delete's (lines 143-158) and the closure task of on_pause
\* (deployment_report/mod.rs, lines 98-100) always return Ok
HookPreRunReturn ==
    /\ PreRunReturn
    /\ CurrentHook # "on_create" => pcMain' = "spawn"

\* mutant of ContainerPostRunReturn: a failed cleanup is made the hook's error
ContainerPostRunReturnEscalates ==
    /\ pcMain = "in_post_run"
    /\ pcMain' = "returned"
    /\ log' = Append(log, Ret("post_run_success", None))
    /\ IF CurrentHook \in {"on_create", "on_delete"}
       THEN \E r \in UnitResults :
            /\ cleanup' = Some(r)
            /\ retval' = r
       ELSE /\ UNCHANGED cleanup
            /\ retval' = OkUnit
    /\ tx' = FALSE
    /\ reporter' = FALSE
    /\ UNCHANGED <<pcMon, rx, chan, deployment_start, th_handle, spawned,
                   action_state, deployment_result>>
    /\ UNCHANGED <<da_pc, da_target, da_action, hook_calls, da_ret>>
    /\ UNCHANGED <<txVars, errVars, taskVars, ticks, buildVars>>

\* the post_run_success of the hook runs and returns: post_task of on_create
\* (lines 101-108) and of on_delete (lines 200-213) call delete_cached_image and
\* drop what it returns (`let _ =`); the closure task of on_pause does nothing;
\* then execute_long_deployment returns Ok(()) (deployment_report/mod.rs 182-183)
ContainerPostRunReturn ==
    /\ pcMain = "in_post_run"
    /\ pcMain' = "returned"
    /\ log' = Append(log, Ret("post_run_success", None))
    /\ IF CurrentHook \in {"on_create", "on_delete"}
       THEN \E r \in UnitResults : cleanup' = Some(r)
       ELSE UNCHANGED cleanup
    /\ retval' = OkUnit
    /\ tx' = FALSE
    /\ reporter' = FALSE
    /\ UNCHANGED <<pcMon, rx, chan, deployment_start, th_handle, spawned,
                   action_state, deployment_result>>
    /\ UNCHANGED <<da_pc, da_target, da_action, hook_calls, da_ret>>
    /\ UNCHANGED <<txVars, errVars, taskVars, ticks, buildVars>>

\* the hook returns what execute_long_deployment returned, and exec_action
\* returns what the hook returned
HookReturn ==
    /\ da_pc = "in_hook"
    /\ pcMain = "returned"
    /\ hook_calls' = [hook_calls EXCEPT ![Len(hook_calls)].ret = Some(retval)]
    /\ da_ret' = Some(retval)
    /\ da_pc' = "done"
    /\ UNCHANGED <<da_target, da_action, cleanup>>
    /\ UNCHANGED <<eldVars, txVars, errVars, taskVars, ticks, buildVars>>

DaNext ==
    \/ ExecAction
    \/ HookPreRunCall
    \/ HookPreRunReturn
    \/ Spawn
    \/ MainBarrierWait
    \/ MainBarrierRelease
    \/ RunCall
    \/ RunReturn
    \/ Send
    \/ Join
    \/ TerminatedCall
    \/ TerminatedReturn
    \/ PostRunCall
    \/ ContainerPostRunReturn
    \/ BeforeStartCall
    \/ BeforeStartReturn
    \/ MonBarrierWait
    \/ MonBarrierRelease
    \/ MonRecv
    \/ InProgressCall
    \/ InProgressReturn
    \/ HookReturn

DaSpec == Init /\ [][DaNext]_vars

\* ------------------------------------------------------------------ properties
\* C28: exec_action has a result for every Action (Create, Pause, Delete,
\* Nothing); for Create, Pause and Delete it invokes the one matching hook
\* (on_create, on_pause, on_delete) once, with the target it was given, and no
\* other hook, and returns what that hook returned.
C28_ExecActionDispatches ==
    da_pc = "done" =>
        /\ da_ret # <<>>
        /\ da_ret[1].kind \in {"Ok", "Err"}
        /\ da_action[1] \in {"Create", "Pause", "Delete"} =>
            /\ Len(hook_calls) = 1
            /\ hook_calls[1].hook =
                    (CASE da_action[1] = "Create" -> "on_create"
                       [] da_action[1] = "Pause" -> "on_pause"
                       [] da_action[1] = "Delete" -> "on_delete")
            /\ hook_calls[1].target = da_target[1]
            /\ hook_calls[1].ret = da_ret

\* C29: Container::on_create and Container::on_delete return Ok(()) whenever
\* their run phase succeeded, whatever the cleanup of post_run_success
\* (delete_cached_image) returned.
C29_CleanupFailureNotEscalated ==
    (/\ da_pc = "done"
     /\ da_action[1] \in {"Create", "Delete"}
     /\ deployment_result.kind = "Ok") =>
        /\ cleanup # <<>>
        /\ hook_calls[1].ret = Some(OkUnit)
        /\ da_ret = Some(OkUnit)

C29_Witness ==
    /\ da_pc = "done"
    /\ da_action = Some("Delete")
    /\ deployment_result.kind = "Ok"
    /\ cleanup = Some(Err(1))
    /\ da_ret = Some(OkUnit)

\* ================================================================== real time
\* Part 6: execute_long_deployment (Part 1) in discrete time.  Time passes only
\* while run executes and the monitor waits in recv_timeout; every other step,
\* the reporter's callbacks included, takes no time, and a timeout fires when
\* its delay has elapsed.

\* the delay of recv_timeout: report_frequency() of one second
FrequencyTicks == TicksPerSecond

\* how long the body of run lasts: three seconds and a half
RunTicks == (7 * TicksPerSecond) \div 2

\* the current time: the number of ticks that have elapsed
Now == Len(ticks)

\* the time at which entry i of log was recorded
TimeOf(i) == Cardinality({k \in 1..Len(ticks) : ticks[k] < i})

\* line 172: when run, once entered, is over
RunEnd ==
    LET calls == Idx("run", "call") IN
    TimeOf(CHOOSE i \in calls : TRUE) + RunTicks

\* line 152: when the recv_timeout the monitor is in times out: report_frequency
\* after it was called, which is when the last deployment_in_progress returned
\* or, for the first one, when the barrier was passed (no time has passed then)
RecvDeadline ==
    LET rets == Idx("deployment_in_progress", "ret") IN
    (IF rets = {} THEN 0 ELSE TimeOf(CHOOSE i \in rets : \A j \in rets : j <= i))
        + FrequencyTicks

\* one tick elapses: run is still executing and the monitor, if there is one,
\* is in a recv_timeout that has not timed out
Tick ==
    /\ pcMain = "in_run"
    /\ Now < RunEnd
    /\ \/ th_handle = "Err"
       \/ pcMon = "recv" /\ Now < RecvDeadline
    /\ ticks' = Append(ticks, Len(log))
    /\ UNCHANGED <<eldVars, txVars, errVars, daVars, taskVars, buildVars>>

\* line 172: run returns when its body is over
TimedRunReturn ==
    /\ pcMain = "in_run"
    /\ Now >= RunEnd
    /\ RunReturn

\* mutant of TimedMonRecv: recv_timeout times out at once
TimedMonRecvNoDelay ==
    /\ pcMain \in {"in_run", "send", "join"}
    /\ MonRecv

\* line 152: recv_timeout returns a queued message, or times out when
\* report_frequency has elapsed
TimedMonRecv ==
    /\ chan > 0 \/ Now >= RecvDeadline
    /\ MonRecv

TimedNext ==
    \/ PreRunCall
    \/ PreRunReturn
    \/ Spawn
    \/ MainBarrierWait
    \/ MainBarrierRelease
    \/ RunCall
    \/ TimedRunReturn
    \/ Send
    \/ Join
    \/ TerminatedCall
    \/ TerminatedReturn
    \/ PostRunCall
    \/ PostRunReturn
    \/ BeforeStartCall
    \/ BeforeStartReturn
    \/ MonBarrierWait
    \/ MonBarrierRelease
    \/ TimedMonRecv
    \/ InProgressCall
    \/ InProgressReturn
    \/ Tick

TimedSpec == Init /\ [][TimedNext]_vars

TaskActions == {"Create", "Pause", "Delete"}

\* mutant of send_infrastructure_progress: a failed Pause is logged as DeleteError
send_infrastructure_progress_swapped(action, option_engine_error) ==
    IF option_engine_error # <<>>
    THEN [kind |-> "EngineEvent::Error",
          stage |-> (CASE action = "Create" -> "CreateError"
                       [] action = "Pause" -> "DeleteError"
                       [] action = "Delete" -> "PauseError"),
          error |-> option_engine_error]
    ELSE [kind |-> "EngineEvent::Info",
          stage |-> (CASE action = "Create" -> "Created"
                       [] action = "Pause" -> "Paused"
                       [] action = "Delete" -> "Deleted"),
          error |-> <<>>]

\* send_infrastructure_progress (lines 77-116): the engine event it gives to
\* logger.log; its stage is Infrastructure(stage), its error is the EngineError
\* (by its tag) cloned with that stage
send_infrastructure_progress(action, option_engine_error) ==
    IF option_engine_error # <<>>
    THEN [kind |-> "EngineEvent::Error",
          stage |-> (CASE action = "Create" -> "CreateError"
                       [] action = "Pause" -> "PauseError"
                       [] action = "Delete" -> "DeleteError"),
          error |-> option_engine_error]
    ELSE [kind |-> "EngineEvent::Info",
          stage |-> (CASE action = "Create" -> "Created"
                       [] action = "Pause" -> "Paused"
                       [] action = "Delete" -> "Deleted"),
          error |-> <<>>]

\* lines 128-146: run is entered on a request with some action and builds the
\* engine; if that fails the error is logged and run returns
TaskRun ==
    /\ task_pc = "idle"
    /\ \E action \in TaskActions, r \in UnitResults :
        /\ request_action' = Some(action)
        /\ IF r.kind = "Err"
           THEN /\ events' = Append(events,
                                    send_infrastructure_progress(action, Some(r.val)))
                /\ task_pc' = "returned"
           ELSE /\ task_pc' = "tx"
                /\ UNCHANGED events
    /\ UNCHANGED <<eldVars, txVars, errVars, daVars, ticks, buildVars>>

\* line 149: Transaction::new(&engine)
TaskTransactionNew ==
    /\ task_pc = "tx"
    /\ New

\* lines 151-160: Transaction::new failed: the EngineError inside the
\* EngineConfigError is logged and run returns
TaskNewFailed ==
    /\ task_pc = "tx"
    /\ txPc = "invalid"
    /\ events' = Append(events,
                        send_infrastructure_progress(request_action[1],
                                                     Some(ApiRet("new").val)))
    /\ task_pc' = "returned"
    /\ UNCHANGED request_action
    /\ UNCHANGED <<eldVars, txVars, errVars, daVars, ticks, buildVars>>

\* lines 163-167: the step of the request's action is enqueued
TaskEnqueue ==
    /\ task_pc = "tx"
    /\ steps = <<>>
    /\ \/ request_action[1] = "Create" /\ create_kubernetes
       \/ request_action[1] = "Pause" /\ pause_kubernetes
       \/ request_action[1] = "Delete" /\ delete_kubernetes

\* line 169: tx.commit() is entered
TaskCommit ==
    /\ task_pc = "tx"
    /\ Len(steps) = 1
    /\ Commit

\* lines 169-193 and handle_transaction_result (lines 62-75): what commit
\* returned is logged: Ok as an Info event, Error(e) as an Error event, Canceled
\* as no event; the archive of the workspace is uploaded, which logs no engine
\* event, and run returns
TaskHandleResult ==
    /\ task_pc = "tx"
    /\ txPc = "done"
    /\ IF ApiRet("commit") = TransactionOk
       THEN events' = Append(events,
                             send_infrastructure_progress(request_action[1], <<>>))
       ELSE IF ApiRet("commit").kind = "TransactionResult::Error"
       THEN events' = Append(events,
                             send_infrastructure_progress(request_action[1],
                                                          Some(ApiRet("commit").val)))
       ELSE UNCHANGED events
    /\ task_pc' = "returned"
    /\ UNCHANGED request_action
    /\ UNCHANGED <<eldVars, txVars, errVars, daVars, ticks, buildVars>>

TaskNext ==
    \/ TaskRun
    \/ TaskTransactionNew
    \/ TaskNewFailed
    \/ TaskEnqueue
    \/ TaskCommit
    \/ CommitNext
    \/ CommitStep
    \/ Rollback
    \/ TaskHandleResult

TaskSpec == Init /\ [][TaskNext]_vars

\* ------------------------------------------------------------------ properties
\* C30: every InfrastructureTask::run logs exactly one terminal engine event: if
\* the engine cannot be built, Transaction::new fails or commit returns Error,
\* one Error event whose stage is CreateError / PauseError / DeleteError by the
\* request's action; if commit returns Ok, one Info event whose stage is
\* Created / Paused / Deleted; never both, and no step is executed when
\* Transaction::new failed.
C30_OneTerminalEvent ==
    /\ Len(events) <= 1
    /\ task_pc # "returned" => events = <<>>
    /\ task_pc = "returned" =>
        /\ Len(events) = 1
        /\ IF txPc = "done" /\ ApiRet("commit") = TransactionOk
           THEN /\ events[1].kind = "EngineEvent::Info"
                /\ events[1].stage =
                        (CASE request_action[1] = "Create" -> "Created"
                           [] request_action[1] = "Pause" -> "Paused"
                           [] request_action[1] = "Delete" -> "Deleted")
           ELSE /\ events[1].kind = "EngineEvent::Error"
                /\ events[1].stage =
                        (CASE request_action[1] = "Create" -> "CreateError"
                           [] request_action[1] = "Pause" -> "PauseError"
                           [] request_action[1] = "Delete" -> "DeleteError")
                /\ events[1].error # <<>>
                /\ txPc = "done" => events[1].error = Some(ApiRet("commit").val)
        /\ txPc \in {"new", "invalid", "done"}
        /\ txPc \in {"new", "invalid"} =>
            /\ steps = <<>>
            /\ executed_steps = <<>>
            /\ LifecycleCalls = <<>>

C30_Witness ==
    /\ task_pc = "returned"
    /\ request_action = Some("Pause")
    /\ txPc = "done"
    /\ ApiRet("commit") = TransactionError(2)
    /\ rollbackRet = CommitError(1)
    /\ events = <<[kind |-> "EngineEvent::Error", stage |-> "PauseError",
                   error |-> Some(2)]>>

\* ================================================================== panics
\* Part 7: execute_long_deployment (Part 1) when a reporter callback of the
\* monitor thread or the task's run panics instead of returning.  A panic
\* unwinds the thread it happens on; on the monitor thread it drops the closure
\* and with it the Receiver, which discards what is queued in the channel.

\* line 144: deployment_before_start panics: the monitor thread dies before it
\* reaches the barrier
BeforeStartPanic ==
    /\ pcMon = "in_before_start"
    /\ pcMon' = "panicked"
    /\ rx' = FALSE
    /\ chan' = 0
    /\ UNCHANGED <<pcMain, tx, deployment_start, th_handle, spawned,
                   action_state, deployment_result, retval, reporter, log>>
    /\ UNCHANGED <<txVars, extVars>>

\* line 157: deployment_in_progress panics: the monitor thread dies in its loop
InProgressPanic ==
    /\ pcMon = "in_in_progress"
    /\ pcMon' = "panicked"
    /\ rx' = FALSE
    /\ chan' = 0
    /\ UNCHANGED <<pcMain, tx, deployment_start, th_handle, spawned,
                   action_state, deployment_result, retval, reporter, log>>
    /\ UNCHANGED <<txVars, extVars>>

\* line 172: run panics: the closure given to thread::scope unwinds, past the
\* send (line 173) and the join (line 174); tx belongs to the frame of
\* execute_long_deployment (line 122) and is not dropped by that
RunPanic ==
    /\ pcMain = "in_run"
    /\ pcMain' = "scope_unwinding"
    /\ UNCHANGED <<pcMon, tx, rx, chan, deployment_start, th_handle, spawned,
                   action_state, deployment_result, retval, reporter, log>>
    /\ UNCHANGED <<txVars, extVars>>

\* lines 129-177: thread::scope waits for every thread spawned in it to finish,
\* then lets the panic of its closure go on to the caller, which drops tx, the
\* state and the reporter
ScopeEndPanic ==
    /\ pcMain = "scope_unwinding"
    /\ th_handle = "Ok" => pcMon \in {"exited", "panicked"}
    /\ pcMain' = "panicked"
    /\ tx' = FALSE
    /\ reporter' = FALSE
    /\ UNCHANGED <<pcMon, rx, chan, deployment_start, th_handle, spawned,
                   action_state, deployment_result, retval, log>>
    /\ UNCHANGED <<txVars, extVars>>

PanicNext ==
    \/ PreRunCall
    \/ PreRunReturn
    \/ Spawn
    \/ MainBarrierWait
    \/ MainBarrierRelease
    \/ RunCall
    \/ RunReturn
    \/ RunPanic
    \/ ScopeEndPanic
    \/ Send
    \/ Join
    \/ TerminatedCall
    \/ TerminatedReturn
    \/ PostRunCall
    \/ PostRunReturn
    \/ BeforeStartCall
    \/ BeforeStartReturn
    \/ BeforeStartPanic
    \/ MonBarrierWait
    \/ MonBarrierRelease
    \/ MonRecv
    \/ InProgressCall
    \/ InProgressReturn
    \/ InProgressPanic

PanicSpec == Init /\ [][PanicNext]_vars

\* ------------------------------------------------------------------ properties
\* a call of a reporter callback that the monitor entered and did not return from
MonitorDiedIn(op) == Cardinality(Idx(op, "call")) > Cardinality(Idx(op, "ret"))

\* C31: if the monitor thread has died by the time run completes (a panic in
\* deployment_in_progress), the completion send queues nothing and fails, the
\* join's error is ignored and the main thread goes on: deployment_terminated is
\* called exactly once, with run's result, and execute_long_deployment returns
\* run's outcome, after post_run_success when run succeeded.
C31_DeadMonitorIgnored ==
    /\ pcMon = "panicked" /\ pcMain = "join" => ENABLED Join
    /\ pcMon = "panicked" /\ pcMain = "returned" =>
        /\ chan = 0
        /\ NumCalls("run") = 1
        /\ NumCalls("deployment_terminated") = 1
        /\ \A i \in Idx("deployment_terminated", "call") : log[i].arg = Returned("run")
        /\ Returned("run").kind = "Ok" =>
            /\ retval = OkUnit
            /\ NumCalls("post_run_success") = 1
        /\ Returned("run").kind = "Err" =>
            /\ retval = Returned("run")
            /\ NumCalls("post_run_success") = 0

C31_Witness ==
    /\ pcMon = "panicked"
    /\ MonitorDiedIn("deployment_in_progress")
    /\ pcMain = "returned"
    /\ retval = OkUnit
    /\ NumCalls("deployment_terminated") = 1

\* the monitor thread is running: spawned and neither returned nor dead
MonAlive ==
    /\ th_handle = "Ok"
    /\ pcMon \notin {"exited", "panicked"}

\* C33: the main thread never blocks forever at the start barrier: while it
\* waits there (line 171), either the barrier has been released or the other
\* party is still on its way to it, also when spawn_scoped returned Err or the
\* monitor died in deployment_before_start.  In a state that violates this no
\* thread can take a step any more: run is never called and
\* execute_long_deployment never returns.
C33_MainNotStuckAtBarrier ==
    pcMain = "barrier_wait" =>
        \/ deployment_start.generation > 0
        \/ MonAlive /\ pcMon \in {"before_start", "in_before_start", "barrier"}

\* C34: if run panics, the monitor thread still stops: while thread::scope
\* waits for it (the closure is unwinding) and it is in its loop, there is a
\* completion message or a disconnection of the channel for its recv_timeout to
\* observe.  In a state that violates this recv_timeout can only time out, and
\* nothing changes that as long as deployment_in_progress returns: the scope
\* never ends and the panic never reaches the caller.
C34_MonitorStopsAfterRunPanic ==
    pcMain = "scope_unwinding" /\ MonAlive /\ pcMon = "recv" =>
        chan > 0 \/ ~tx

\* C35: the monitor never observes the channel as disconnected: the Sender is
\* alive as long as the monitor thread runs, and a recv_timeout that ends the
\* loop does so by taking the completion message out of the channel, never by
\* the panic of the Disconnected arm.
C35_NeverDisconnected ==
    /\ [](MonAlive => tx /\ pcMain \notin {"returned", "panicked"})
    /\ [][pcMon = "recv" /\ pcMon' \notin {"recv", "in_progress"}
            => pcMon' = "exited" /\ chan > 0 /\ chan' = chan - 1]_vars

C35_Witness ==
    /\ pcMon = "exited"
    /\ NumCalls("deployment_in_progress") > 0
    /\ pcMain = "returned"
    /\ ~tx

\* ================================================================== fair scheduling
\* Part 8: execute_long_deployment (Part 1) on OS threads that are each scheduled
\* again and again: a step a thread can take, it eventually takes.

\* lines 127, 129-186: the steps of the calling thread
MainNext ==
    \/ PreRunCall
    \/ PreRunReturn
    \/ Spawn
    \/ MainBarrierWait
    \/ MainBarrierRelease
    \/ RunCall
    \/ RunReturn
    \/ Send
    \/ Join
    \/ TerminatedCall
    \/ TerminatedReturn
    \/ PostRunCall
    \/ PostRunReturn

\* lines 140-166: the steps of the deployment-monitor thread
MonNext ==
    \/ BeforeStartCall
    \/ BeforeStartReturn
    \/ MonBarrierWait
    \/ MonBarrierRelease
    \/ MonRecv
    \/ InProgressCall
    \/ InProgressReturn

FairSpec == Init /\ [][Next]_vars /\ WF_vars(MainNext) /\ WF_vars(MonNext)

\* ------------------------------------------------------------------ properties
\* C32: once the monitor thread is spawned, and as pre_run, run and the
\* reporter's callbacks return, both threads pass the barrier, the monitor
\* receives the completion signal and leaves its loop, the join completes and
\* execute_long_deployment returns.
C32_EventuallyReturns ==
    /\ (th_handle = "Ok" /\ pcMain \in {"barrier", "barrier_wait"}) ~> (pcMain = "run")
    /\ (pcMon \in {"before_start", "in_before_start", "barrier", "barrier_wait"})
            ~> (pcMon = "recv")
    /\ (th_handle = "Ok") ~> (pcMon = "exited")
    /\ (pcMain = "join" /\ th_handle = "Ok") ~> (pcMain = "terminated")
    /\ (th_handle = "Ok") ~> (pcMain = "returned")

C32_Witness ==
    /\ th_handle = "Ok"
    /\ pcMain = "returned"
    /\ pcMon = "exited"
    /\ chan = 0
    /\ NumCalls("deployment_in_progress") = 2

\* ================================================================== closure task
\* Part 9: execute_long_deployment (Part 1) on a task given as a plain closure
\* Fn(&EnvProgressLogger) -> Result<(), EngineError>, through the blanket impl
\* of DeploymentTask (src/src/deployment_report/mod.rs, lines 91-111), as in
\* Router::on_pause (src/src/deployment_action/deploy_router.rs, lines 72-77).
\* DeploymentResult is (), written 0.

\* lines 98-100: pre_run returns Ok(())
ClosurePreRunReturn ==
    /\ pcMain = "in_pre_run"
    /\ log' = Append(log, Ret("pre_run", OkUnit))
    /\ action_state' = Val(0)
    /\ pcMain' = "spawn"
    /\ UNCHANGED <<pcMon, tx, rx, chan, deployment_start, th_handle, spawned,
                   deployment_result, retval, reporter>>
    /\ UNCHANGED <<txVars, extVars>>

\* mutant of ClosureRunReturn: the error of the closure is dropped
ClosureRunReturnSwallowsErr ==
    /\ pcMain = "in_run"
    /\ \E r \in UnitResults :
        /\ deployment_result' = Ok(action_state.val)
        /\ log' = log \o <<Call("closure", None), Ret("closure", r),
                           Ret("run", Ok(action_state.val))>>
    /\ pcMain' = "send"
    /\ UNCHANGED <<pcMon, tx, rx, chan, deployment_start, th_handle, spawned,
                   action_state, retval, reporter>>
    /\ UNCHANGED <<txVars, extVars>>

\* lines 102-108: run calls the closure once and returns Ok(state) when it
\* returned Ok, its error otherwise
ClosureRunReturn ==
    /\ pcMain = "in_run"
    /\ \E r \in UnitResults :
        LET ret == IF r.kind = "Ok" THEN Ok(action_state.val) ELSE r IN
        /\ deployment_result' = ret
        /\ log' = log \o <<Call("closure", None), Ret("closure", r), Ret("run", ret)>>
    /\ pcMain' = "send"
    /\ UNCHANGED <<pcMon, tx, rx, chan, deployment_start, th_handle, spawned,
                   action_state, retval, reporter>>
    /\ UNCHANGED <<txVars, extVars>>

\* line 110: post_run_success has an empty body; PostRunReturn is its return
ClosureNext ==
    \/ PreRunCall
    \/ ClosurePreRunReturn
    \/ Spawn
    \/ MainBarrierWait
    \/ MainBarrierRelease
    \/ RunCall
    \/ ClosureRunReturn
    \/ Send
    \/ Join
    \/ TerminatedCall
    \/ TerminatedReturn
    \/ PostRunCall
    \/ PostRunReturn
    \/ BeforeStartCall
    \/ BeforeStartReturn
    \/ MonBarrierWait
    \/ MonBarrierRelease
    \/ MonRecv
    \/ InProgressCall
    \/ InProgressReturn

ClosureSpec == Init /\ [][ClosureNext]_vars

\* ------------------------------------------------------------------ properties
\* C36: for a task given as a plain closure pre_run always succeeds and
\* post_run_success does nothing: deployment_before_start, deployment_terminated
\* and the closure are never called twice, and when execute_long_deployment has
\* returned each was called exactly once and the result is Ok(()) if the closure
\* returned Ok and the closure's error otherwise.
C36_ClosureTaskRunsOnce ==
    /\ NumCalls("deployment_before_start") <= 1
    /\ NumCalls("deployment_terminated") <= 1
    /\ NumCalls("closure") <= 1
    /\ Returned("pre_run").kind # "Err"
    /\ pcMain = "returned" =>
        /\ NumCalls("deployment_before_start") = 1
        /\ NumCalls("deployment_terminated") = 1
        /\ NumCalls("closure") = 1
        /\ Returned("closure").kind \in {"Ok", "Err"}
        /\ Returned("closure").kind = "Ok" => retval = OkUnit
        /\ Returned("closure").kind = "Err" => retval = Returned("closure")
        /\ retval = OkUnit => Returned("closure").kind = "Ok"

C36_Witness ==
    /\ pcMain = "returned"
    /\ Returned("closure") = Err(2)
    /\ retval = Err(2)
    /\ NumCalls("deployment_before_start") = 1
    /\ NumCalls("deployment_terminated") = 1
    /\ NumCalls("post_run_success") = 0

\* ================================================================== LocalDocker
\* Part 10: LocalDocker::build (src/src/build_platform/local_docker.rs) with
\* build_image_with_docker and build_image_with_buildpacks.  is_task_canceled is
\* a predicate of the caller that build polls; the file system, git, the docker
\* client and the pack command answer as they will.

\* what is_task_canceled returned
Flag(b) == [kind |-> IF b THEN "true" ELSE "false", val |-> 0]

\* a BuildError, by its variant and the tag of the error it wraps (0: none)
BuildError(variant, raw) == [kind |-> variant, val |-> raw]
Aborted == BuildError("BuildError::Aborted", 0)

\* the Builds build is called with: whether git_repository.dockerfile_path is
\* Some, whether disable_cache is set, and git_repository.buildpack_language
\* (<<>> is None), a String, here the list of its pieces between '@'
Builds ==
    [dockerfile_path : BOOLEAN, disable_cache : BOOLEAN,
     buildpack_language : {<<>>, <<"python">>, <<"python", "3">>, <<"python", "3", "x">>}]

\* what the docker client's build returns (lines 188-196 tell Aborted from the
\* other DockerErrors)
DockerResults ==
    {OkUnit, [kind |-> "DockerError::Aborted", val |-> 0]}
        \cup {[kind |-> "DockerError", val |-> t] : t \in Tags}

\* what exec_with_abort returns (lines 303-314 tell Killed from the other
\* CommandErrors)
CommandResults ==
    {OkUnit, [kind |-> "CommandError::Killed", val |-> 0]}
        \cup {[kind |-> "CommandError", val |-> t] : t \in Tags}

\* the commands that build an image
BuildCommands == {"docker build", "pack build", "pack build --clear-cache"}

\* build returns ret
BuildReturns(ret) ==
    /\ build_ret' = Some(ret)
    /\ build_pc' = "returned"

\* lines 349-361: build is entered and polls is_task_canceled
BuildEntry ==
    /\ build_pc = "idle"
    /\ \E build \in Builds, canceled \in BOOLEAN :
        /\ build_req' = Some(build)
        /\ build_calls' = Append(build_calls, Did("is_task_canceled", Flag(canceled)))
        /\ IF canceled
           THEN BuildReturns(Aborted)
           ELSE /\ build_pc' = "workspace"
                /\ UNCHANGED build_ret
    /\ UNCHANGED <<eldVars, txVars, errVars, daVars, taskVars, ticks>>

\* lines 364-402: the workspace directory of the build is made and an old clone
\* in it is removed; an io error of either is returned as BuildError::IoError
BuildWorkspace ==
    /\ build_pc = "workspace"
    /\ \E r \in UnitResults :
        /\ build_calls' = Append(build_calls, Did("workspace_directory", r))
        /\ IF r.kind = "Err"
           THEN BuildReturns(BuildError("BuildError::IoError", r.val))
           ELSE /\ build_pc' = "clone"
                /\ UNCHANGED build_ret
    /\ UNCHANGED build_req
    /\ UNCHANGED <<eldVars, txVars, errVars, daVars, taskVars, ticks>>

\* lines 405-415: git::clone_at_commit; its error is returned as GitError
BuildClone ==
    /\ build_pc = "clone"
    /\ \E r \in UnitResults :
        /\ build_calls' = Append(build_calls, Did("git::clone_at_commit", r))
        /\ IF r.kind = "Err"
           THEN BuildReturns(BuildError("BuildError::GitError", r.val))
           ELSE /\ build_pc' = "cloned"
                /\ UNCHANGED build_ret
    /\ UNCHANGED build_req
    /\ UNCHANGED <<eldVars, txVars, errVars, daVars, taskVars, ticks>>

\* mutant of BuildPollAfterClone: the answer of the poll is not looked at
BuildPollAfterCloneIgnored ==
    /\ build_pc = "cloned"
    /\ \E canceled \in BOOLEAN :
        build_calls' = Append(build_calls, Did("is_task_canceled", Flag(canceled)))
    /\ build_pc' = "checks"
    /\ UNCHANGED <<build_req, build_ret>>
    /\ UNCHANGED <<eldVars, txVars, errVars, daVars, taskVars, ticks>>

\* lines 417-421: is_task_canceled is polled again after the clone
BuildPollAfterClone ==
    /\ build_pc = "cloned"
    /\ \E canceled \in BOOLEAN :
        /\ build_calls' = Append(build_calls, Did("is_task_canceled", Flag(canceled)))
        /\ IF canceled
           THEN BuildReturns(Aborted)
           ELSE /\ build_pc' = "checks"
                /\ UNCHANGED build_ret
    /\ UNCHANGED build_req
    /\ UNCHANGED <<eldVars, txVars, errVars, daVars, taskVars, ticks>>

\* lines 425-483: space is reclaimed if needed, the build context path and the
\* Dockerfile path are checked (InvalidConfig if one is wrong), and the build
\* goes to docker when the Build names a Dockerfile, to buildpacks otherwise
BuildChecks ==
    /\ build_pc = "checks"
    /\ \E valid \in BOOLEAN :
        IF valid
        THEN /\ build_pc' = IF build_req[1].dockerfile_path THEN "docker" ELSE "buildpacks"
             /\ UNCHANGED build_ret
        ELSE BuildReturns(BuildError("BuildError::InvalidConfig", 0))
    /\ UNCHANGED <<build_req, build_calls>>
    /\ UNCHANGED <<eldVars, txVars, errVars, daVars, taskVars, ticks>>

\* build_image_with_docker, lines 109-186: the Dockerfile is read (IoError) and
\* its args extracted (InvalidConfig); if the image exists remotely the build is
\* skipped and Ok returned; otherwise the docker build is started, with a
\* CommandKiller made of the timeout and is_task_canceled
BuildImageWithDocker ==
    /\ build_pc = "docker"
    /\ \/ BuildReturns(BuildError("BuildError::IoError", 0)) /\ UNCHANGED build_calls
       \/ BuildReturns(BuildError("BuildError::InvalidConfig", 0)) /\ UNCHANGED build_calls
       \/ /\ build_calls' = Append(build_calls, Did("does_image_exist_remotely", Flag(TRUE)))
          /\ BuildReturns(OkUnit)
       \/ /\ build_calls' = build_calls \o
                    <<Did("does_image_exist_remotely", Flag(FALSE)), Did("docker build", None)>>
          /\ build_pc' = "docker_running"
          /\ UNCHANGED build_ret
    /\ UNCHANGED build_req
    /\ UNCHANGED <<eldVars, txVars, errVars, daVars, taskVars, ticks>>

\* lines 176-197: the docker build ends; DockerError::Aborted is returned as
\* BuildError::Aborted, any other error as BuildError::DockerError
DockerBuildReturn ==
    /\ build_pc = "docker_running"
    /\ \E r \in DockerResults :
        /\ build_calls' = [build_calls EXCEPT ![Len(build_calls)].ret = r]
        /\ BuildReturns(CASE r = OkUnit -> OkUnit
                          [] r.kind = "DockerError::Aborted" -> Aborted
                          [] OTHER -> BuildError("BuildError::DockerError", r.val))
    /\ UNCHANGED build_req
    /\ UNCHANGED <<eldVars, txVars, errVars, daVars, taskVars, ticks>>

\* build_image_with_buildpacks, lines 200-296: for the one builder of
\* BUILDPACKS_BUILDERS (lines 26-31) the arguments are put together, with
\* --clear-cache when the cache is disabled (InvalidConfig if the buildpack
\* language is not `builder` or `builder@version`, lines 254-275), and pack is
\* started with exec_with_abort and a CommandKiller made of the timeout and
\* is_task_canceled
BuildImageWithBuildpacks ==
    /\ build_pc = "buildpacks"
    /\ \/ /\ Len(build_req[1].buildpack_language) > 2
          /\ BuildReturns(BuildError("BuildError::InvalidConfig", 0))
          /\ UNCHANGED build_calls
       \/ /\ Len(build_req[1].buildpack_language) <= 2
          /\ build_calls' = Append(build_calls,
                                   Did(IF build_req[1].disable_cache
                                       THEN "pack build --clear-cache"
                                       ELSE "pack build", None))
          /\ build_pc' = "pack_running"
          /\ UNCHANGED build_ret
    /\ UNCHANGED build_req
    /\ UNCHANGED <<eldVars, txVars, errVars, daVars, taskVars, ticks>>

\* lines 291-315: pack ends, which ends the loop over the one builder;
\* CommandError::Killed is returned as BuildError::Aborted, any other error as
\* BuildError::BuildpackError
PackBuildReturn ==
    /\ build_pc = "pack_running"
    /\ \E r \in CommandResults :
        /\ build_calls' = [build_calls EXCEPT ![Len(build_calls)].ret = r]
        /\ BuildReturns(CASE r = OkUnit -> OkUnit
                          [] r.kind = "CommandError::Killed" -> Aborted
                          [] OTHER -> BuildError("BuildError::BuildpackError", r.val))
    /\ UNCHANGED build_req
    /\ UNCHANGED <<eldVars, txVars, errVars, daVars, taskVars, ticks>>

BuildNext ==
    \/ BuildEntry
    \/ BuildWorkspace
    \/ BuildClone
    \/ BuildPollAfterClone
    \/ BuildChecks
    \/ BuildImageWithDocker
    \/ DockerBuildReturn
    \/ BuildImageWithBuildpacks
    \/ PackBuildReturn

BuildSpec == Init /\ [][BuildNext]_vars

\* ------------------------------------------------------------------ properties
\* the entries of build_calls with one of the given ops
BuildCalls(ops) == SelectSeq(build_calls, LAMBDA e : e.op \in ops)

\* C37: LocalDocker::build polls is_task_canceled at entry and again right
\* after a successful git clone; when a poll answers true build returns
\* BuildError::Aborted at once, having started no docker or pack build (and, at
\* entry, having cloned nothing); and when the build command was killed, build
\* returns BuildError::Aborted, not DockerError or BuildpackError.
C37_CancellationAborts ==
    /\ build_pc # "idle" => build_calls[1].op = "is_task_canceled"
    /\ \A i \in 1..Len(build_calls) :
        /\ build_calls[i] = Did("git::clone_at_commit", OkUnit) /\ build_pc # "cloned"
            => build_calls[i + 1].op = "is_task_canceled"
        /\ build_calls[i] = Did("is_task_canceled", Flag(TRUE)) =>
            /\ build_pc = "returned"
            /\ build_ret = Some(Aborted)
            /\ Len(build_calls) = i
            /\ BuildCalls(BuildCommands) = <<>>
            /\ i = 1 => BuildCalls({"git::clone_at_commit"}) = <<>>
        /\ (/\ build_calls[i].op \in BuildCommands
            /\ build_calls[i].ret.kind \in {"DockerError::Aborted", "CommandError::Killed"})
            => build_ret = Some(Aborted)

C37_Witness ==
    /\ build_pc = "returned"
    /\ build_ret = Some(Aborted)
    /\ Len(build_calls) = 4
    /\ build_calls[3] = Did("git::clone_at_commit", OkUnit)
    /\ build_calls[4] = Did("is_task_canceled", Flag(TRUE))

TypeOK ==
    /\ pcMain \in {"pre_run", "in_pre_run", "spawn", "barrier", "barrier_wait", "run",
                   "in_run", "send", "join", "terminated", "in_terminated",
                   "post_run", "in_post_run", "returned"}
    /\ pcMon \in {"unspawned", "before_start", "in_before_start", "barrier",
                  "barrier_wait", "recv", "in_progress", "in_in_progress",
                  "exited", "panicked"}
    /\ tx \in BOOLEAN /\ rx \in BOOLEAN /\ reporter \in BOOLEAN
    /\ chan \in 0..1
    /\ th_handle \in {"None", "Ok", "Err"}
    /\ spawned \in 0..1
====
